---------------------------- MODULE Spec2Model ----------------------------
(***************************************************************************)
(* A model of the rustreexo Utreexo accumulator: the Stump (leaf counter   *)
(* and root hashes), the Pollard (a forest of reference-counted nodes that *)
(* point at their aunt and their nieces) and the C / wasm bindings of the  *)
(* stump.                                                                  *)
(*                                                                         *)
(* Hashes are modelled symbolically.  A digest is a tuple: <<k>> is the    *)
(* digest of leaf k (<<0>> is the all-zero digest), <<a, b>> is the digest *)
(* the host hash function gives for the 64 bytes a ++ b.  The host hash is *)
(* therefore injective (collision free) in the model.                      *)
(***************************************************************************)
EXTENDS Integers, Sequences, FiniteSets, TLC

(***************************************************************************)
(* Bounds of the model.                                                    *)
(***************************************************************************)
\* leaves added in one behaviour to the pollard, and to the stump where it
\* can be undone
MaxLeaves == 4
\* leaf counter cap of the stump under additions alone
StumpMaxLeaves == 8
\* leaves added by one modify call
MaxAdds == 2
\* positions deleted by one modify call
MaxDels == 2
\* distinct leaf digests <<1>> .. <<NumHashes>>
NumHashes == 4
\* heap cells the pollard may hold
MaxNodes == 14
\* undo calls made on the pollard in one behaviour
MaxUndos == 1
\* positions proved at once by Pollard::prove
MaxTargets == 2
\* leaf counter cap of a stump held through a binding
BindMaxLeaves == 3
\* hashes in a proof handed to a binding
MaxProofHashes == 1
\* deleted hashes handed to a binding
BindMaxDels == 1
\* distinct leaf digests handed to a binding
BindNumHashes == 2

\* the leaves of the pollard that takes additions alone
AddMaxLeaves == 15
\* the leaves that pollard may be given with remember = false
MaxForgotten == 2
\* the leaves of the pollard whose caller deletes positions of any kind
AtMaxLeaves == 2
\* leaf counter cap of the stump of a C caller whose pointers may be null
PtrMaxLeaves == 1
\* distinct hashes the nodes handed to migrate_up may carry
MigrateNumHashes == 5
\* leaves of the pollard whose leaf hashes may repeat
RepMaxLeaves == 6
\* the greatest field element a PoseidonHash of the example is given
MaxFelt == 300
\* distinct leaf hashes of that pollard
RepNumHashes == 2

(***************************************************************************)
(* NodeHash (wasm_node_hash.rs)                                            *)
(***************************************************************************)
\* the 32 zero bytes Deref gives for a hash without a value
ZeroBytes == <<0>>

Empty == [ty |-> "Empty", val |-> <<>>]

Placeholder == [ty |-> "Placeholder", val |-> <<>>]

Value(v) == [ty |-> "Some", val |-> v]

LeafHash(k) == Value(<<k>>)

IsEmpty(h) == h.ty = "Empty"

\* impl Deref for NodeHash: the value's bytes, or 32 zero bytes
Deref(h) == IF h.val # <<>> THEN h.val ELSE ZeroBytes

\* NodeHash::parent_hash: the host hash of the two dereferenced digests
NodeParentHash(left, right) == Value(<<Deref(left), Deref(right)>>)

\* an equality that compares the dereferenced bytes
NodeHashEqBytes(a, b) == Deref(a) = Deref(b)

\* #[derive(PartialEq)] on NodeHash { ty, val }: field by field
NodeHashEq(a, b) == a.ty = b.ty /\ a.val = b.val

\* types::parent_hash of the stump (sha256 digests, which have no Empty)
TypesParentHash(left, right) == Value(<<left.val, right.val>>)

(***************************************************************************)
(* Bit arithmetic on naturals                                              *)
(***************************************************************************)
RECURSIVE Pow2(_)
Pow2(n) == IF n <= 0 THEN 1 ELSE 2 * Pow2(n - 1)

Shr(x, n) == x \div Pow2(n)

Shl(x, n) == x * Pow2(n)

\* bit n of x: (x >> n) & 1
RECURSIVE Bit(_, _)
Bit(x, n) == IF n = 0 THEN x % 2 ELSE Bit(x \div 2, n - 1)

RECURSIVE BitAnd(_, _)
BitAnd(a, b) ==
  IF a = 0 \/ b = 0 THEN 0
  ELSE (a % 2) * (b % 2) + 2 * BitAnd(a \div 2, b \div 2)

Max(a, b) == IF a >= b THEN a ELSE b

Min(a, b) == IF a <= b THEN a ELSE b

RECURSIVE PopCount(_)
PopCount(n) == IF n = 0 THEN 0 ELSE (n % 2) + PopCount(n \div 2)

(***************************************************************************)
(* Positions (util.rs)                                                     *)
(***************************************************************************)
\* tree_rows: the rows of the smallest perfect tree covering n leaves
RECURSIVE TreeRowsFrom(_, _)
TreeRowsFrom(n, r) == IF Pow2(r) >= n THEN r ELSE TreeRowsFrom(n, r + 1)

TreeRows(n) == IF n = 0 THEN 0 ELSE TreeRowsFrom(n, 0)

\* detect_row: the row of a position, the count of its leading one bits
RECURSIVE DetectRowFrom(_, _, _)
DetectRowFrom(pos, bit, h) ==
  IF bit >= 0 /\ Bit(pos, bit) = 1 THEN DetectRowFrom(pos, bit - 1, h + 1)
  ELSE h

DetectRow(pos, forest_rows) == DetectRowFrom(pos, forest_rows, 0)

\* parent(p, rows) = (p >> 1) + (1 << rows)
Parent(pos, forest_rows) == Shr(pos, 1) + Pow2(forest_rows)

Sibling(pos) == IF pos % 2 = 0 THEN pos + 1 ELSE pos - 1

\* the ascending sequence of a set of positions
RECURSIVE SortedSeq(_)
SortedSeq(S) ==
  IF S = {} THEN <<>>
  ELSE LET m == CHOOSE x \in S : \A y \in S : x <= y
       IN <<m>> \o SortedSeq(S \ {m})

SeqToSet(q) == {q[i] : i \in 1..Len(q)}

\* detwin: two sibling positions are replaced by their parent, to a fixpoint
RECURSIVE DetwinSet(_, _)
DetwinSet(S, forest_rows) ==
  IF \E x \in S : Sibling(x) \in S
  THEN LET x == CHOOSE y \in S :
                  /\ y % 2 = 0 /\ y + 1 \in S
                  /\ \A z \in S : (z % 2 = 0 /\ z + 1 \in S) => y <= z
       IN DetwinSet((S \ {x, x + 1}) \cup {Parent(x, forest_rows)}, forest_rows)
  ELSE S

Detwin(positions, forest_rows) ==
  SortedSeq(DetwinSet(SeqToSet(positions), forest_rows))

\* root_position: the position of the root of row `row`
RootPosition(leaves, row, forest_rows) ==
  (Pow2(forest_rows + 1) - Pow2(forest_rows + 1 - row))
    + 2 * Shr(leaves, row + 1)

IsRootPosition(pos, leaves, forest_rows) ==
  LET row == DetectRow(pos, forest_rows)
  IN Bit(leaves, row) = 1 /\ pos = RootPosition(leaves, row, forest_rows)

(***************************************************************************)
(* PollardNode (pollard.rs): nodes live in a heap of reference-counted     *)
(* cells.  A cell is named by its index; 0 is None.  left and right are    *)
(* owning references (Rc), aunt is a Weak reference.                       *)
(***************************************************************************)
\* the 64 root slots of the Pollard
RootSlots == 64

Rows == 0..(RootSlots - 1)

\* an aunt field holding Some(weak) whose cell has been dropped
Dangling == -1

\* PollardNode::new
MkNode(hash, remember) ==
  [hash |-> hash, remember |-> remember, aunt |-> 0, left |-> 0, right |-> 0,
   dead |-> FALSE]

\* a cell whose last owning reference is gone
DeadNode ==
  [hash |-> Empty, remember |-> FALSE, aunt |-> 0, left |-> 0, right |-> 0,
   dead |-> TRUE]

\* Weak::upgrade
Upgrade(heap, w) ==
  IF w <= 0 THEN 0 ELSE IF heap[w].dead THEN 0 ELSE w

\* PollardNode::aunt
AuntOf(heap, n) == Upgrade(heap, heap[n].aunt)

\* PollardNode::sibling: the aunt's niece that is not self, told by its hash
SiblingOf(heap, n) ==
  LET a == AuntOf(heap, n)
  IN IF a = 0 THEN 0
     ELSE IF heap[a].left = 0 THEN 0
     ELSE IF heap[heap[a].left].hash = heap[n].hash THEN heap[a].right
     ELSE heap[a].left

\* PollardNode::grandparent
GrandparentOf(heap, n) ==
  LET a == AuntOf(heap, n)
  IN IF a = 0 THEN 0 ELSE AuntOf(heap, a)

\* set_niece that takes its arguments the other way round
SetNieceSwapped(heap, n, l, r) == [heap EXCEPT ![n].left = r, ![n].right = l]

\* set_niece that writes the left niece alone
SetNieceLeft(heap, n, l, r) == [heap EXCEPT ![n].left = l]

\* PollardNode::set_niece
SetNiece(heap, n, l, r) == [heap EXCEPT ![n].left = l, ![n].right = r]

\* set_aunt that makes the node its own aunt
SetAuntSelf(heap, n, a) == [heap EXCEPT ![n].aunt = n]

\* PollardNode::set_aunt
SetAunt(heap, n, a) == [heap EXCEPT ![n].aunt = a]

\* set_aunt on an Option: nothing to do for None
SetAuntOpt(heap, n, a) == IF n = 0 THEN heap ELSE SetAunt(heap, n, a)

\* PollardNode::swap_nieces
SwapNieces(heap, a, b) ==
  [heap EXCEPT ![a].left = heap[b].left, ![a].right = heap[b].right,
               ![b].left = heap[a].left, ![b].right = heap[a].right]

\* the cells that keep an owner: held from outside, or a niece of such a cell
RECURSIVE LiveFix(_, _, _)
LiveFix(heap, held, L) ==
  LET L2 == L \cap (held \cup UNION {{heap[y].left, heap[y].right} : y \in L})
  IN IF L2 = L THEN L ELSE LiveFix(heap, held, L2)

Live(heap, held) ==
  LiveFix(heap, held, {x \in 1..Len(heap) : ~heap[x].dead})

\* Rc drop: every cell without an owner is released, with what it owned
Drop(heap, held) ==
  LET L == Live(heap, held)
  IN [i \in 1..Len(heap) |-> IF i \in L THEN heap[i] ELSE DeadNode]

\* what a walk over the heap returns when it called parent_hash on nothing
\* Empty: the heap it leaves and how it ended
NoHash(heap, status) ==
  [heap |-> heap, status |-> status, hashed_empty |-> FALSE]

\* PollardNode::recompute_hashes; more steps than cells is a walk that never
\* ends (the recursion exhausts the stack).  hashed_empty tells whether
\* parent_hash was called with an Empty argument on the way.
RECURSIVE RecomputeHashes(_, _, _)
RecomputeHashes(heap, n, fuel) ==
  IF fuel = 0 THEN NoHash(heap, "panic")
  ELSE IF heap[n].left = 0 \/ heap[n].right = 0
       THEN NoHash(heap, "ok")
  ELSE LET left == heap[heap[n].left].hash
           right == heap[heap[n].right].hash
           h2 == [heap EXCEPT ![n].hash = NodeParentHash(left, right)]
           a == AuntOf(h2, n)
           up == IF a = 0
                 THEN NoHash(h2, "ok")
                 ELSE RecomputeHashes(h2, a, fuel - 1)
       IN [up EXCEPT !.hashed_empty = @ \/ IsEmpty(left) \/ IsEmpty(right)]

\* PollardNode::migrate_up, called on s while `held` cells are referenced
MigrateUp(heap, s, held) ==
  LET aunt == AuntOf(heap, s)
      gp == IF aunt = 0 THEN 0 ELSE AuntOf(heap, aunt)
      sib == SiblingOf(heap, s)
  IN IF aunt = 0 THEN NoHash(heap, "panic")
     ELSE IF gp = 0 THEN NoHash(heap, "ok")
     ELSE IF sib = 0 THEN NoHash(heap, "panic")
     ELSE IF heap[aunt].left = 0 \/ heap[gp].left = 0
          THEN NoHash(heap, "ok")
     ELSE LET self == IF heap[heap[aunt].left].hash = heap[s].hash
                      THEN heap[aunt].left ELSE heap[aunt].right
              first == heap[heap[gp].left].hash = heap[aunt].hash
              h1 == SetNiece(heap, gp,
                             IF first THEN self ELSE heap[gp].left,
                             IF first THEN heap[gp].right ELSE self)
              h2 == SetNiece(h1, s, aunt, sib)
              h3 == Drop(h2, held \cup {s, aunt, gp, sib} \cup ({self} \ {0}))
          IN IF self = 0 THEN NoHash(h3, "ok")
             ELSE RecomputeHashes(h3, self, Len(heap) + 1)

(***************************************************************************)
(* Pollard (pollard.rs).  A pollard is [heap, roots, leaves, status]:      *)
(* status is "ok", "panic" (an unwrap / expect on None or Err, a RefCell   *)
(* borrowed twice, or a recursion without end) or "overflow" (an unsigned  *)
(* subtraction below zero: a panic in a build with overflow checks, a      *)
(* wrapped value in a build without).  Nothing is modelled after either.   *)
(* hashed_empty is history: some call of parent_hash made by the pollard   *)
(* so far had an Empty argument.                                           *)
(***************************************************************************)
\* Pollard::new
PollardNew ==
  [heap |-> <<>>, roots |-> [r \in Rows |-> 0], leaves |-> 0, status |-> "ok",
   hashed_empty |-> FALSE]

Fail(P, why) == [P EXCEPT !.status = why]

RootSet(roots) == {roots[r] : r \in Rows} \ {0}

RootIds(P) == RootSet(P.roots)

\* the loop of Pollard::detect_offset
RECURSIVE DetectOffsetLoop(_, _, _, _, _)
DetectOffsetLoop(num_leaves, nr, tr, bigger_trees, marker) ==
  LET tree_size == BitAnd(Pow2(tr), num_leaves)
  IN IF BitAnd(Shl(marker, nr), Pow2(tr + 1) - 1) >= tree_size
     THEN IF marker < tree_size \/ bigger_trees = 0 \/ tr = 0
          THEN [status |-> "overflow", root |-> 0, depth |-> 0, bits |-> 0]
          ELSE DetectOffsetLoop(num_leaves, nr, tr - 1, bigger_trees - 1,
                                marker - tree_size)
     ELSE IF tr < nr
          THEN [status |-> "overflow", root |-> 0, depth |-> 0, bits |-> 0]
          ELSE [status |-> "ok", root |-> bigger_trees, depth |-> tr - nr,
                bits |-> marker]

\* Pollard::detect_offset: (root row, depth below the root, bits)
DetectOffset(pos, num_leaves) ==
  LET tr == TreeRows(num_leaves)
  IN DetectOffsetLoop(num_leaves, DetectRow(pos, tr), tr, tr, pos)

\* the descent of grab_position taking the other niece at every step
RECURSIVE DescendSwapped(_, _, _, _, _)
DescendSwapped(heap, node, pos, depth, row) ==
  IF row >= depth - 1 THEN node
  ELSE LET next == IF Bit(pos, depth - row - 1) = 1
                   THEN heap[node].right ELSE heap[node].left
       IN IF next = 0 THEN 0 ELSE DescendSwapped(heap, next, pos, depth, row + 1)

\* the descent of Pollard::grab_position from `node`, rows row .. depth - 2
RECURSIVE Descend(_, _, _, _, _)
Descend(heap, node, pos, depth, row) ==
  IF row >= depth - 1 THEN node
  ELSE LET next == IF Bit(pos, depth - row - 1) = 1
                   THEN heap[node].left ELSE heap[node].right
       IN IF next = 0 THEN 0 ELSE Descend(heap, next, pos, depth, row + 1)

NoGrab(kind) == [kind |-> kind, node |-> 0, sib |-> 0]

\* Pollard::grab_position: "some" (node, sibling), "none", or a failure
GrabPosition(P, pos) ==
  LET off == DetectOffset(pos, P.leaves)
  IN IF off.status # "ok" THEN NoGrab(off.status)
     ELSE IF off.root >= RootSlots THEN NoGrab("panic")
     ELSE IF P.roots[off.root] = 0 THEN NoGrab("panic")
     ELSE IF off.depth = 0
          THEN [kind |-> "some", node |-> P.roots[off.root],
                sib |-> P.roots[off.root]]
     ELSE LET node == Descend(P.heap, P.roots[off.root], pos, off.depth, 0)
          IN IF node = 0 THEN NoGrab("none")
             ELSE IF P.heap[node].left = 0 \/ P.heap[node].right = 0
                  THEN NoGrab("none")
             ELSE IF off.bits % 2 = 0
                  THEN [kind |-> "some", node |-> P.heap[node].left,
                        sib |-> P.heap[node].right]
                  ELSE [kind |-> "some", node |-> P.heap[node].right,
                        sib |-> P.heap[node].left]

\* Pollard::get_hash
GetHash(P, pos) ==
  LET g == GrabPosition(P, pos)
  IN IF g.kind = "some" THEN P.heap[g.node].hash ELSE Empty

\* the walk of prove_single that pushes the root as well
RECURSIVE ProveWalkWithRoot(_, _, _, _)
ProveWalkWithRoot(heap, current, proof, fuel) ==
  LET aunt == AuntOf(heap, current)
  IN IF aunt = 0 THEN [status |-> "ok", hashes |-> proof]
     ELSE IF fuel = 0 THEN [status |-> "panic", hashes |-> proof]
     ELSE ProveWalkWithRoot(heap, aunt, Append(proof, heap[aunt].hash),
                            fuel - 1)

\* the walk of Pollard::prove_single up the aunts of `current`
RECURSIVE ProveWalk(_, _, _, _)
ProveWalk(heap, current, proof, fuel) ==
  LET aunt == AuntOf(heap, current)
  IN IF aunt = 0 THEN [status |-> "ok", hashes |-> proof]
     ELSE IF fuel = 0 THEN [status |-> "panic", hashes |-> proof]
     ELSE ProveWalk(heap, aunt,
                    IF AuntOf(heap, aunt) # 0
                    THEN Append(proof, heap[aunt].hash) ELSE proof,
                    fuel - 1)

\* prove_single that stops below the last aunt whose hash a proof needs
ProveSingleStopEarly(P, pos) ==
  LET g == GrabPosition(P, pos)
  IN IF g.kind = "none" THEN [status |-> "err", hashes |-> <<>>]
     ELSE IF g.kind # "some" THEN [status |-> g.kind, hashes |-> <<>>]
     ELSE LET w == ProveWalk(P.heap, g.node, <<P.heap[g.sib].hash>>,
                             Len(P.heap) + 1)
          IN [w EXCEPT !.hashes = SubSeq(@, 1, Min(2, Len(@)))]

\* Pollard::prove_single; status "err" is Err("Position not found")
ProveSingle(P, pos) ==
  LET g == GrabPosition(P, pos)
  IN IF g.kind = "none" THEN [status |-> "err", hashes |-> <<>>]
     ELSE IF g.kind # "some" THEN [status |-> g.kind, hashes |-> <<>>]
     ELSE ProveWalk(P.heap, g.node, <<P.heap[g.sib].hash>>, Len(P.heap) + 1)

\* Pollard::prove: one hash list per detwinned position
Prove(P, positions) ==
  LET tw == Detwin(positions, TreeRows(P.leaves))
  IN [i \in 1..Len(tw) |-> ProveSingle(P, tw[i])]

\* the first slot at or after i that ends the root loop of delete_single:
\* one that is None (unwrap) or holds the hash looked for; RootSlots if none
RECURSIVE FirstRootStop(_, _, _)
FirstRootStop(P, hash, i) ==
  IF i >= RootSlots THEN RootSlots
  ELSE IF P.roots[i] = 0 THEN i
  ELSE IF P.heap[P.roots[i]].hash = hash THEN i
  ELSE FirstRootStop(P, hash, i + 1)

\* the first occupied slot at or after i holding `hash`; RootSlots if none
RECURSIVE FirstRootWith(_, _, _)
FirstRootWith(P, hash, i) ==
  IF i >= RootSlots THEN RootSlots
  ELSE IF P.roots[i] # 0 /\ P.heap[P.roots[i]].hash = hash THEN i
  ELSE FirstRootWith(P, hash, i + 1)

\* Pollard::delete_single of `node` while `held` cells are referenced by the
\* caller; an Err is unwrapped by modify
DeleteSingle(P, node, held) ==
  IF P.heap[node].aunt = 0
  THEN LET i == FirstRootStop(P, P.heap[node].hash, 0)
       IN IF i >= RootSlots THEN Fail(P, "panic")
          ELSE IF P.roots[i] = 0 THEN Fail(P, "panic")
          ELSE LET id == Len(P.heap) + 1
                   r2 == [P.roots EXCEPT ![i] = id]
                   h2 == Append(P.heap, MkNode(Empty, FALSE))
               IN [P EXCEPT !.roots = r2,
                            !.heap = Drop(h2, RootSet(r2) \cup held)]
  ELSE LET sibling == SiblingOf(P.heap, node)
       IN IF sibling = 0 THEN Fail(P, "panic")
          ELSE IF GrandparentOf(P.heap, node) = 0
          THEN LET aunt == AuntOf(P.heap, node)
                   i == FirstRootWith(P, P.heap[aunt].hash, 0)
               IN IF i >= RootSlots THEN Fail(P, "panic")
                  ELSE LET r2 == [P.roots EXCEPT ![i] = sibling]
                       IN [P EXCEPT !.roots = r2,
                                    !.heap = Drop(P.heap,
                                                  RootSet(r2) \cup held)]
          ELSE LET m == MigrateUp(P.heap, sibling,
                                  RootIds(P) \cup held \cup {node})
               IN [P EXCEPT !.heap = Drop(m.heap, RootIds(P) \cup held),
                            !.status = m.status,
                            !.hashed_empty = @ \/ m.hashed_empty]

\* the deletion loop of Pollard::modify over the grabbed nodes
RECURSIVE DeleteAll(_, _, _, _)
DeleteAll(P, grabbed, i, held) ==
  IF P.status # "ok" \/ i > Len(grabbed) THEN P
  ELSE IF grabbed[i].kind # "some" THEN DeleteAll(P, grabbed, i + 1, held)
  ELSE DeleteAll(DeleteSingle(P, grabbed[i].node, held), grabbed, i + 1, held)

\* add_single that hashes an Empty root with the node it carries
RECURSIVE AddSingleRowsNoSkip(_, _, _, _)
AddSingleRowsNoSkip(P, new_node, row, destroyed) ==
  IF Bit(P.leaves, row) = 1
  THEN IF row >= RootSlots \/ P.roots[row] = 0
       THEN [p |-> Fail(P, "panic"), destroyed |-> destroyed]
       ELSE LET old_root == P.roots[row]
                r1 == [P.roots EXCEPT ![row] = 0]
            IN      LET remember == P.heap[old_root].remember
                                    \/ P.heap[new_node].remember
                        new_root == Len(P.heap) + 1
                        h1 == Append(P.heap,
                                MkNode(NodeParentHash(P.heap[old_root].hash,
                                                      P.heap[new_node].hash),
                                       remember))
                        h2 == SwapNieces(h1, new_node, old_root)
                        h3 == SetAuntOpt(h2, h2[new_node].left, new_node)
                        h4 == SetAuntOpt(h3, h3[new_node].right, new_node)
                        h5 == SetAuntOpt(h4, h4[old_root].left, old_root)
                        h6 == SetAuntOpt(h5, h5[old_root].right, old_root)
                        h7 == IF remember
                              THEN SetNiece(SetAunt(SetAunt(h6, old_root,
                                     new_root), new_node, new_root),
                                     new_root, old_root, new_node)
                              ELSE h6
                        empty == IsEmpty(P.heap[old_root].hash)
                                 \/ IsEmpty(P.heap[new_node].hash)
                    IN AddSingleRowsNoSkip([P EXCEPT !.roots = r1, !.heap = h7,
                                               !.hashed_empty = @ \/ empty],
                                     new_root, row + 1, destroyed)
  ELSE IF row >= RootSlots
       THEN [p |-> Fail(P, "panic"), destroyed |-> destroyed]
       ELSE [p |-> [P EXCEPT !.roots = [P.roots EXCEPT ![row] = new_node],
                             !.leaves = P.leaves + 1],
             destroyed |-> destroyed]

\* a merged root that takes the flag of the node carried alone
RememberOfNew(old_root, new_node) == new_node.remember

\* the remember flag add_single gives the root that merges two nodes
Remember(old_root, new_node) == old_root.remember \/ new_node.remember

\* add_single that leaves the node it carries in the slot of an Empty root
RECURSIVE AddSingleRowsStop(_, _, _, _)
AddSingleRowsStop(P, new_node, row, destroyed) ==
  IF Bit(P.leaves, row) = 1
  THEN IF row >= RootSlots \/ P.roots[row] = 0
       THEN [p |-> Fail(P, "panic"), destroyed |-> destroyed]
       ELSE LET old_root == P.roots[row]
                r1 == [P.roots EXCEPT ![row] = 0]
            IN IF IsEmpty(P.heap[old_root].hash)
               THEN [p |-> [P EXCEPT !.roots = [r1 EXCEPT ![row] = new_node],
                                     !.leaves = P.leaves + 1],
                     destroyed |-> Append(destroyed, row)]
               ELSE LET remember == P.heap[old_root].remember
                                    \/ P.heap[new_node].remember
                        new_root == Len(P.heap) + 1
                        h1 == Append(P.heap,
                                MkNode(NodeParentHash(P.heap[old_root].hash,
                                                      P.heap[new_node].hash),
                                       remember))
                        h2 == SwapNieces(h1, new_node, old_root)
                        h3 == SetAuntOpt(h2, h2[new_node].left, new_node)
                        h4 == SetAuntOpt(h3, h3[new_node].right, new_node)
                        h5 == SetAuntOpt(h4, h4[old_root].left, old_root)
                        h6 == SetAuntOpt(h5, h5[old_root].right, old_root)
                        h7 == IF remember
                              THEN SetNiece(SetAunt(SetAunt(h6, old_root,
                                     new_root), new_node, new_root),
                                     new_root, old_root, new_node)
                              ELSE h6
                        empty == IsEmpty(P.heap[old_root].hash)
                                 \/ IsEmpty(P.heap[new_node].hash)
                    IN AddSingleRowsStop([P EXCEPT !.roots = r1, !.heap = h7,
                                               !.hashed_empty = @ \/ empty],
                                     new_root, row + 1, destroyed)
  ELSE IF row >= RootSlots
       THEN [p |-> Fail(P, "panic"), destroyed |-> destroyed]
       ELSE [p |-> [P EXCEPT !.roots = [P.roots EXCEPT ![row] = new_node],
                             !.leaves = P.leaves + 1],
             destroyed |-> destroyed]

\* the while loop of Pollard::add_single from row `row`, carrying new_node;
\* `destroyed` collects the rows whose Empty root the addition removed
RECURSIVE AddSingleRows(_, _, _, _)
AddSingleRows(P, new_node, row, destroyed) ==
  IF Bit(P.leaves, row) = 1
  THEN IF row >= RootSlots \/ P.roots[row] = 0
       THEN [p |-> Fail(P, "panic"), destroyed |-> destroyed]
       ELSE LET old_root == P.roots[row]
                r1 == [P.roots EXCEPT ![row] = 0]
            IN IF IsEmpty(P.heap[old_root].hash)
               THEN AddSingleRows([P EXCEPT !.roots = r1], new_node,
                                  row + 1, Append(destroyed, row))
               ELSE LET remember == Remember(P.heap[old_root],
                                             P.heap[new_node])
                        new_root == Len(P.heap) + 1
                        h1 == Append(P.heap,
                                MkNode(NodeParentHash(P.heap[old_root].hash,
                                                      P.heap[new_node].hash),
                                       remember))
                        h2 == SwapNieces(h1, new_node, old_root)
                        h3 == SetAuntOpt(h2, h2[new_node].left, new_node)
                        h4 == SetAuntOpt(h3, h3[new_node].right, new_node)
                        h5 == SetAuntOpt(h4, h4[old_root].left, old_root)
                        h6 == SetAuntOpt(h5, h5[old_root].right, old_root)
                        h7 == IF remember
                              THEN SetNiece(SetAunt(SetAunt(h6, old_root,
                                     new_root), new_node, new_root),
                                     new_root, old_root, new_node)
                              ELSE h6
                        empty == IsEmpty(P.heap[old_root].hash)
                                 \/ IsEmpty(P.heap[new_node].hash)
                    IN AddSingleRows([P EXCEPT !.roots = r1, !.heap = h7,
                                               !.hashed_empty = @ \/ empty],
                                     new_root, row + 1, destroyed)
  ELSE IF row >= RootSlots
       THEN [p |-> Fail(P, "panic"), destroyed |-> destroyed]
       ELSE [p |-> [P EXCEPT !.roots = [P.roots EXCEPT ![row] = new_node],
                             !.leaves = P.leaves + 1],
             destroyed |-> destroyed]

\* Pollard::add_single of node = [hash, remember]
AddSingle(P, node, destroyed) ==
  LET id == Len(P.heap) + 1
      res == AddSingleRows(
               [P EXCEPT !.heap = Append(P.heap,
                                         MkNode(node.hash, node.remember))],
               id, 0, destroyed)
  IN res

\* the addition loop of Pollard::modify
RECURSIVE AddAll(_, _, _)
AddAll(P, adds, destroyed) ==
  IF P.status # "ok" \/ adds = <<>> THEN [p |-> P, destroyed |-> destroyed]
  ELSE LET r == AddSingle(P, Head(adds), destroyed)
       IN AddAll(r.p, Tail(adds), r.destroyed)

\* the state a public call returns with: the cells no one owns are dropped
\* and taken out of the heap, the others keep their order; an aunt whose
\* cell is gone becomes Dangling
Compact(P) ==
  LET L == Live(P.heap, RootIds(P))
      ids == SortedSeq(L)
      rank == [x \in 1..Len(P.heap) |-> Cardinality({y \in L : y <= x})]
      strong(x) == IF x = 0 THEN 0 ELSE rank[x]
      weak(x) == IF x <= 0 THEN x ELSE IF x \in L THEN rank[x] ELSE Dangling
  IN [P EXCEPT
       !.heap = [i \in 1..Len(ids) |->
                   [P.heap[ids[i]] EXCEPT !.left = strong(@),
                                          !.right = strong(@),
                                          !.aunt = weak(@)]],
       !.roots = [r \in Rows |-> strong(P.roots[r])]]

\* modify whose deletions also count down the leaf counter
ModifyRawDelCount(P, adds, del_positions) ==
  LET tw == Detwin(del_positions, TreeRows(P.leaves))
      grabbed == [i \in 1..Len(tw) |-> GrabPosition(P, tw[i])]
      bad == {i \in 1..Len(tw) : grabbed[i].kind \in {"panic", "overflow"}}
      held == UNION {{grabbed[i].node, grabbed[i].sib} :
                       i \in {j \in 1..Len(tw) : grabbed[j].kind = "some"}}
      gone == Cardinality({i \in 1..Len(tw) : grabbed[i].kind = "some"})
  IN IF bad # {}
     THEN [p |-> Fail(P, grabbed[CHOOSE i \in bad : \A j \in bad : i <= j].kind),
           destroyed |-> <<>>]
     ELSE LET D == DeleteAll(P, grabbed, 1, held)
          IN AddAll([D EXCEPT !.leaves = Max(0, D.leaves - gone)], adds, <<>>)

\* Pollard::modify(adds, del_positions): the positions are detwinned and
\* grabbed first, then deleted one by one, then the leaves are added
ModifyRaw(P, adds, del_positions) ==
  LET tw == Detwin(del_positions, TreeRows(P.leaves))
      grabbed == [i \in 1..Len(tw) |-> GrabPosition(P, tw[i])]
      bad == {i \in 1..Len(tw) : grabbed[i].kind \in {"panic", "overflow"}}
      held == UNION {{grabbed[i].node, grabbed[i].sib} :
                       i \in {j \in 1..Len(tw) : grabbed[j].kind = "some"}}
  IN IF bad # {}
     THEN [p |-> Fail(P, grabbed[CHOOSE i \in bad : \A j \in bad : i <= j].kind),
           destroyed |-> <<>>]
     ELSE LET D == DeleteAll(P, grabbed, 1, held)
          IN AddAll(D, adds, <<>>)

\* the pollard a modify call leaves: the one it started from, marked, when
\* the call did not return
ModifyEnd(P, r) ==
  IF r.p.status = "ok" THEN Compact(r.p)
  ELSE [Fail(P, r.p.status) EXCEPT !.hashed_empty = r.p.hashed_empty]

PollardModify(P, adds, del_positions) ==
  ModifyEnd(P, ModifyRaw(P, adds, del_positions))

\* what UndoData records of a modify call: the number of leaves added and
\* the rows of the Empty roots the additions destroyed
UndoDataOf(adds, r) ==
  IF r.p.status = "ok"
  THEN [num_adds |-> Len(adds), roots_destroyed |-> r.destroyed]
  ELSE [num_adds |-> 0, roots_destroyed |-> <<>>]

\* the lowest occupied root slot at or after r; RootSlots if there is none
RECURSIVE FirstOccupied(_, _)
FirstOccupied(roots, r) ==
  IF r >= RootSlots THEN RootSlots
  ELSE IF roots[r] # 0 THEN r
  ELSE FirstOccupied(roots, r + 1)

\* Pollard::undo_single_add
UndoSingleAdd(P) ==
  LET first_row == FirstOccupied(P.roots, 0)
  IN IF first_row >= RootSlots THEN Fail(P, "panic")
     ELSE IF first_row = 0 THEN [P EXCEPT !.roots = [P.roots EXCEPT ![0] = 0]]
     ELSE LET node == P.roots[first_row]
              old_root == P.heap[node].left
              undo_node == P.heap[node].right
          IN IF old_root = 0 \/ undo_node = 0 \/ old_root = undo_node
             THEN Fail(P, "panic")
             ELSE LET h1 == SwapNieces(P.heap, undo_node, old_root)
                      h2 == SetAunt(h1, old_root, 0)
                      r2 == [P.roots EXCEPT ![first_row - 1] = old_root,
                                            ![first_row] = 0]
                  IN IF P.leaves = 0
                     THEN Fail(P, "overflow")
                     ELSE [P EXCEPT !.heap = h2,
                                    !.roots = r2,
                                    !.leaves = P.leaves - 1]

\* the first loop of Pollard::undo
RECURSIVE UndoAdds(_, _)
UndoAdds(P, n) ==
  IF n = 0 \/ P.status # "ok" THEN P ELSE UndoAdds(UndoSingleAdd(P), n - 1)

\* the second loop of Pollard::undo: an Empty root for every destroyed row
RECURSIVE RestoreDestroyed(_, _, _)
RestoreDestroyed(P, num_adds, rows) ==
  IF rows = <<>> \/ P.status # "ok" THEN P
  ELSE IF P.leaves < num_adds THEN Fail(P, "overflow")
  ELSE IF Head(rows) >= RootSlots THEN Fail(P, "panic")
  ELSE LET id == Len(P.heap) + 1
           r2 == [P.roots EXCEPT ![Head(rows)] = id]
           h2 == Append(P.heap, MkNode(Empty, FALSE))
       IN RestoreDestroyed([P EXCEPT !.roots = r2, !.heap = h2],
                           num_adds, Tail(rows))

\* Pollard::undo
PollardUndo(P, undo_data) ==
  LET A == UndoAdds(P, undo_data.num_adds)
      B == RestoreDestroyed(A, undo_data.num_adds, undo_data.roots_destroyed)
  IN IF B.status # "ok" THEN Fail(P, B.status)
     ELSE IF B.leaves < undo_data.num_adds THEN Fail(P, "overflow")
     ELSE Compact([B EXCEPT !.leaves = B.leaves - undo_data.num_adds])

(***************************************************************************)
(* Proof and the stump that takes deletions (proof.rs, util.rs, stump.rs   *)
(* of the library the bindings link).  A proof is [targets, hashes].       *)
(***************************************************************************)
\* parent_hash with the Empty collapse: an Empty side gives the other side
ParentHashCollapse(left, right) ==
  IF IsEmpty(left) THEN right
  ELSE IF IsEmpty(right) THEN left
  ELSE Value(<<left.val, right.val>>)

SetMin(S) == CHOOSE x \in S : \A y \in S : x <= y

\* the walk of get_proof_positions: every position of `work` goes up to its
\* root; a sibling that is not computed on the way is needed from the proof
RECURSIVE ProofPositionsFrom(_, _, _, _)
ProofPositionsFrom(work, needed, leaves, rows) ==
  IF work = {} THEN needed
  ELSE LET p == SetMin(work)
       IN IF IsRootPosition(p, leaves, rows) \/ DetectRow(p, rows) >= rows
          THEN ProofPositionsFrom(work \ {p}, needed, leaves, rows)
          ELSE IF Sibling(p) \in work
          THEN ProofPositionsFrom(
                 (work \ {p, Sibling(p)}) \cup {Parent(p, rows)},
                 needed, leaves, rows)
          ELSE ProofPositionsFrom(
                 (work \ {p}) \cup {Parent(p, rows)},
                 needed \cup {Sibling(p)}, leaves, rows)

\* get_proof_positions: the sibling positions a proof of `targets` supplies
GetProofPositions(targets, leaves, rows) ==
  SortedSeq(ProofPositionsFrom(SeqToSet(targets), {}, leaves, rows))

NoRoots == [ok |-> FALSE, roots |-> {}]

\* step 3 of calculate_hashes: the node of smallest position is emitted if
\* it is a root, else joined with its sibling into their parent
RECURSIVE Ascend(_, _, _, _)
Ascend(nodes, roots, leaves, rows) ==
  IF nodes = {} THEN [ok |-> TRUE, roots |-> roots]
  ELSE LET p == SetMin({n.pos : n \in nodes})
           n == CHOOSE m \in nodes : m.pos = p
       IN IF IsRootPosition(p, leaves, rows)
          THEN Ascend(nodes \ {n}, roots \cup {n}, leaves, rows)
          ELSE IF DetectRow(p, rows) >= rows \/ p % 2 = 1 THEN NoRoots
          ELSE IF \A m \in nodes : m.pos # p + 1 THEN NoRoots
          ELSE LET sib == CHOOSE m \in nodes : m.pos = p + 1
                   up == [pos |-> Parent(p, rows),
                          hash |-> ParentHashCollapse(n.hash, sib.hash)]
               IN IF \E m \in nodes : m.pos = up.pos THEN NoRoots
                  ELSE Ascend((nodes \ {n, sib}) \cup {up}, roots, leaves, rows)

\* Proof::calculate_hashes: the roots [pos, hash] over the targets
CalculateHashes(proof, del_hashes, leaves) ==
  LET rows == TreeRows(leaves)
      pp == GetProofPositions(proof.targets, leaves, rows)
      nt == Len(proof.targets)
  IN IF \/ Len(del_hashes) # nt
        \/ Cardinality(SeqToSet(proof.targets)) # nt
        \/ Len(proof.hashes) < Len(pp)
        \/ \E i \in 1..nt : proof.targets[i] >= Pow2(rows + 1) - 1
     THEN NoRoots
     ELSE Ascend({[pos |-> proof.targets[i], hash |-> del_hashes[i]] :
                    i \in 1..nt}
                 \cup {[pos |-> pp[i], hash |-> proof.hashes[i]] :
                         i \in 1..Len(pp)},
                 {}, leaves, rows)

\* the place in a stump's root list of the root of row `row`
RootIndex(leafs, row) == PopCount(Shr(leafs, row + 1)) + 1

\* Proof::verify against the stump s
Verify(proof, del_hashes, s) ==
  LET c == CalculateHashes(proof, del_hashes, s.leafs)
  IN /\ c.ok
     /\ \A n \in c.roots :
          s.roots[RootIndex(s.leafs, DetectRow(n.pos, TreeRows(s.leafs)))]
            = n.hash

\* step 2 of modify: the roots over the targets, computed with the targets
\* Empty, replace the roots they covered
CoreDelete(s, proof) ==
  LET c == CalculateHashes(proof, [i \in 1..Len(proof.targets) |-> Empty],
                           s.leafs)
      at(i) == {n \in c.roots :
                  RootIndex(s.leafs, DetectRow(n.pos, TreeRows(s.leafs))) = i}
  IN [leafs |-> s.leafs,
      roots |-> [i \in 1..Len(s.roots) |->
                   IF at(i) = {} THEN s.roots[i]
                   ELSE (CHOOSE n \in at(i) : TRUE).hash]]

\* step 3 of modify for one leaf: the carry loop from row r on
RECURSIVE CoreAddLoop(_, _, _, _)
CoreAddLoop(leafs, roots, carry, r) ==
  IF Bit(leafs, r) = 1 /\ Len(roots) > 0
  THEN CoreAddLoop(leafs, SubSeq(roots, 1, Len(roots) - 1),
                   ParentHashCollapse(roots[Len(roots)], carry), r + 1)
  ELSE [leafs |-> leafs + 1, roots |-> Append(roots, carry)]

RECURSIVE CoreAdd(_, _)
CoreAdd(s, utxos) ==
  IF utxos = <<>> THEN s
  ELSE CoreAdd(CoreAddLoop(s.leafs, s.roots, Head(utxos), 0), Tail(utxos))

\* Stump::modify(&self, utxos, del_hashes, proof) of the library the
\* bindings link: Err when the proof of the deletions does not verify, else
\* Ok with the new stump (verify, delete, add)
StumpModifyCore(s, utxos, del_hashes, proof) ==
  IF del_hashes # <<>> /\ ~Verify(proof, del_hashes, s)
  THEN [ok |-> FALSE, stump |-> s]
  ELSE [ok |-> TRUE, stump |-> CoreAdd(CoreDelete(s, proof), utxos)]

(***************************************************************************)
(* State                                                                   *)
(***************************************************************************)
VARIABLES
  stump,      \* the Stump: [leafs, roots]
  stumpAdded, \* history: the leaf digests added to the stump, in order
  old,        \* a retained clone of the stump: [set, leafs, roots, added]
  last,       \* history: the last call on a stump driven by itself, and the
              \* stump that call started from
  pol,        \* the Pollard: [heap, roots, leaves, status]
  polAdded,   \* history: the leaves [hash, remember] the pollard holds
  polDeleted, \* history: the leaf positions deleted from the pollard
  polUndo,    \* the UndoData of the last modify call, until it is used
  polUndos,   \* history: the number of undo calls made on the pollard
  polLast,    \* history: the last modify call made on the pollard with
              \* positions of the caller's choice: [called, adds, dels,
              \* ret]; ret is "unit" when the call returned and "abort"
              \* when it did not
  cstump,     \* the Stump a C caller holds: [leafs, roots, freed]; freed
              \* says that the buffer of its roots was released
  wstump,     \* the Stump inside a wasm Stump object: [leafs, roots]
  ustump,     \* the Stump inside a uniffi Stump object: [leafs, roots]
  bind,       \* history: the last binding call, its outcome, the stump
              \* its caller saw before it and the number of utxos it gave
  cerrno,     \* the Error variable of a C caller, which errno points at
              \* when it is not null
  ccall,      \* history: the last call a C caller made with pointers that
              \* may be null: the function, the null pointers, the counts,
              \* what it returned, the stump and the Error before it
  ph,         \* history: the last call of NodeHash::parent_hash made by a
              \* caller of the library: [called, left, right, out]
  eqc,        \* history: the last comparison left == right of two NodeHash
              \* made by a caller of the library: [called, left, right, out]
  mu,         \* history: the last call of PollardNode::migrate_up made on
              \* nodes put together by hand: [called, a_left, x_left, pre,
              \* post, status], pre and post the heap before and after
  rt          \* history: the last PoseidonHash of the example written and
              \* read back: [called, h, bytes, back]

stumpVars == <<stump, stumpAdded, old>>

polVars == <<pol, polAdded, polDeleted, polUndo, polUndos, polLast>>

bindVars == <<cstump, wstump, ustump, bind, cerrno, ccall>>

hashVars == <<ph, eqc, mu, rt>>

accVars ==
  <<stump, stumpAdded, old, last, pol, polAdded, polDeleted, polUndo, polUndos,
    polLast>>

vars ==
  <<stump, stumpAdded, old, last, pol, polAdded, polDeleted, polUndo, polUndos,
    polLast, cstump, wstump, ustump, bind, cerrno, ccall, ph, eqc, mu,
    rt>>

(***************************************************************************)
(* Stump (stump.rs)                                                        *)
(***************************************************************************)
\* Stump::new
StumpNew == [leafs |-> 0, roots |-> <<>>]

Pop(s) == SubSeq(s, 1, Len(s) - 1)

\* add_single with the operands of parent_hash exchanged
RECURSIVE AddSingleLoopSwapped(_, _, _, _)
AddSingleLoopSwapped(leafs, roots, to_add, h) ==
  IF Bit(leafs, h) = 1
  THEN IF Len(roots) > 0
       THEN AddSingleLoopSwapped(leafs, Pop(roots),
                          TypesParentHash(to_add, roots[Len(roots)]), h + 1)
       ELSE AddSingleLoopSwapped(leafs, roots, to_add, h + 1)
  ELSE [roots |-> Append(roots, to_add), leafs |-> leafs + 1]

\* add_single that reads the last root without popping it
RECURSIVE AddSingleLoopNoPop(_, _, _, _)
AddSingleLoopNoPop(leafs, roots, to_add, h) ==
  IF Bit(leafs, h) = 1
  THEN IF Len(roots) > 0
       THEN AddSingleLoopNoPop(leafs, roots,
                          TypesParentHash(roots[Len(roots)], to_add), h + 1)
       ELSE AddSingleLoopNoPop(leafs, roots, to_add, h + 1)
  ELSE [roots |-> Append(roots, to_add), leafs |-> leafs + 1]

\* the while loop of Stump::add_single, from row h on
RECURSIVE AddSingleLoop(_, _, _, _)
AddSingleLoop(leafs, roots, to_add, h) ==
  IF Bit(leafs, h) = 1
  THEN IF Len(roots) > 0
       THEN AddSingleLoop(leafs, Pop(roots),
                          TypesParentHash(roots[Len(roots)], to_add), h + 1)
       ELSE AddSingleLoop(leafs, roots, to_add, h + 1)
  ELSE [roots |-> Append(roots, to_add), leafs |-> leafs + 1]

\* Stump::add_single
StumpAddSingle(s, node) == AddSingleLoop(s.leafs, s.roots, node, 0)

\* Stump::add
RECURSIVE StumpAdd(_, _)
StumpAdd(s, utxos) ==
  IF utxos = <<>> THEN s
  ELSE StumpAdd(StumpAddSingle(s, Head(utxos)), Tail(utxos))

\* Stump::modify: the deletions (_stxos) are not used
StumpModifyResult(s, utxos, stxos) == StumpAdd(s, utxos)

\* undo that restores the leaf counter and keeps the roots
StumpUndoLeafsOnly(s, old_state) ==
  [leafs |-> old_state.leafs, roots |-> s.roots]

\* Stump::undo
StumpUndoResult(s, old_state) ==
  [leafs |-> old_state.leafs, roots |-> old_state.roots]

\* the lists of at most n leaf digests a call may add when `used` distinct
\* digests were added before: a leaf repeats a digest already added or takes
\* the next unused one (the host hash is injective, so which unused digest
\* it takes changes nothing)
RECURSIVE GrowLists(_, _)
GrowLists(used, n) ==
  IF n = 0 THEN {<<>>}
  ELSE {<<>>} \cup
       UNION {{<<LeafHash(k)>> \o t : t \in GrowLists(Max(used, k), n - 1)} :
                k \in 1..Min(NumHashes, used + 1)}

\* the distinct digests among the leaves of a list
Used(hashes) == Cardinality({hashes[i] : i \in 1..Len(hashes)})

\* the lists of leaves one modify call may add
AddLists == GrowLists(Used(stumpAdded), MaxAdds)

NoUndo == [num_adds |-> 0, roots_destroyed |-> <<>>]

NoCall == [op |-> "none", adds |-> <<>>, dels |-> <<>>, pre |-> StumpNew]

NoBind == [api |-> "none", ok |-> TRUE, pre |-> StumpNew, n_utxos |-> 0]

NoHashCall == [called |-> FALSE, left |-> Empty, right |-> Empty, out |-> Empty]

\* which pointers of a call are null
NullFlags ==
  [errno : BOOLEAN, stump : BOOLEAN, utxos : BOOLEAN, dels : BOOLEAN,
   proof : BOOLEAN]

NoCCall ==
  [fn |-> "none",
   null |-> [errno |-> FALSE, stump |-> FALSE, utxos |-> FALSE,
             dels |-> FALSE, proof |-> FALSE],
   n_utxos |-> 0, n_dels |-> 0, outcome |-> "none", ret |-> 1,
   aborted |-> FALSE, pre |-> StumpNew, pre_errno |-> "None"]

NoModify == [called |-> FALSE, adds |-> <<>>, dels |-> <<>>, ret |-> "unit"]

NoEqCall ==
  [called |-> FALSE, left |-> Empty, right |-> Empty, out |-> TRUE]

NoRoundTrip ==
  [called |-> FALSE, h |-> [ty |-> "Empty", felt |-> 0], bytes |-> <<>>,
   back |-> [ty |-> "Empty", felt |-> 0]]

NoMigrate ==
  [called |-> FALSE, a_left |-> TRUE, x_left |-> TRUE, pre |-> <<>>,
   post |-> <<>>, status |-> "ok"]

Init ==
  /\ stump = StumpNew
  /\ stumpAdded = <<>>
  /\ old = [set |-> FALSE, leafs |-> 0, roots |-> <<>>, added |-> <<>>]
  /\ last = NoCall
  /\ pol = PollardNew
  /\ polAdded = <<>>
  /\ polDeleted = {}
  /\ polUndo = NoUndo
  /\ polUndos = 0
  /\ polLast = NoModify
  /\ cstump = [leafs |-> 0, roots |-> <<>>, freed |-> FALSE]
  /\ wstump = StumpNew
  /\ ustump = StumpNew
  /\ bind = NoBind
  /\ cerrno = "None"
  /\ ccall = NoCCall
  /\ ph = NoHashCall
  /\ eqc = NoEqCall
  /\ mu = NoMigrate
  /\ rt = NoRoundTrip

\* s.modify(&utxos, &stxos): the deleted hashes are leaves the stump holds
StumpModify ==
  \E utxos \in AddLists :
    \E stxos \in UNION {[1..n -> SeqToSet(stumpAdded)] : n \in 0..MaxDels} :
      /\ stump.leafs + Len(utxos) <= MaxLeaves
      /\ stump' = StumpModifyResult(stump, utxos, stxos)
      /\ stumpAdded' = stumpAdded \o utxos
      /\ last' = [op |-> "modify", adds |-> utxos, dels |-> stxos, pre |-> stump]
      /\ UNCHANGED <<old, polVars, bindVars, hashVars>>

\* s_old = s.clone(): the caller retains the current state
StumpClone ==
  /\ old' = [set |-> TRUE, leafs |-> stump.leafs, roots |-> stump.roots,
             added |-> stumpAdded]
  /\ last' = [op |-> "clone", adds |-> <<>>, dels |-> <<>>, pre |-> stump]
  /\ UNCHANGED <<stump, stumpAdded, polVars, bindVars, hashVars>>

\* s.undo(s_old)
StumpUndo ==
  /\ old.set
  /\ stump' = StumpUndoResult(stump, old)
  /\ stumpAdded' = old.added
  /\ last' = [op |-> "undo", adds |-> <<>>, dels |-> <<>>, pre |-> stump]
  /\ UNCHANGED <<old, polVars, bindVars, hashVars>>

NextStump == StumpModify \/ StumpClone \/ StumpUndo

SpecStump == Init /\ [][NextStump]_vars

\* s.modify(&utxos, &vec![]): additions alone, up to StumpMaxLeaves leaves
StumpAddLeaves ==
  \E utxos \in AddLists :
    /\ stump.leafs + Len(utxos) <= StumpMaxLeaves
    /\ stump' = StumpModifyResult(stump, utxos, <<>>)
    /\ stumpAdded' = stumpAdded \o utxos
    /\ last' = [op |-> "modify", adds |-> utxos, dels |-> <<>>, pre |-> stump]
    /\ UNCHANGED <<old, polVars, bindVars, hashVars>>

SpecStumpAdd == Init /\ [][StumpAddLeaves]_vars

(***************************************************************************)
(* The accumulator under modifications: the same additions and deletions   *)
(* go to the pollard and to the stump.                                     *)
(***************************************************************************)
\* the lists of PollardAddition one modify call may add: the digests of
\* AddLists, each leaf remembered or not
PollardAddLists ==
  UNION {{[i \in 1..Len(hs) |-> [hash |-> hs[i], remember |-> rs[i]]] :
            rs \in [1..Len(hs) -> BOOLEAN]} :
           hs \in GrowLists(Used([i \in 1..Len(polAdded) |-> polAdded[i].hash]),
                            MaxAdds)}

\* the positions of the leaves added and not deleted so far
PresentLeaves == (0..(Min(pol.leaves, Len(polAdded)) - 1)) \ polDeleted

DelSets == {D \in SUBSET PresentLeaves : Cardinality(D) <= MaxDels}

\* acc.modify(&adds, &del_positions) and s.modify(&utxos, &stxos), the
\* additions being one of addLists
ModifyWith(addLists) ==
  \E adds \in addLists :
    \E D \in DelSets :
      LET dels == SortedSeq(D)
          R == ModifyRaw(pol, adds, dels)
          P2 == ModifyEnd(pol, R)
          utxos == [i \in 1..Len(adds) |-> adds[i].hash]
          stxos == [i \in 1..Len(dels) |-> polAdded[dels[i] + 1].hash]
      IN /\ pol.status = "ok"
         /\ Len(adds) + Len(dels) > 0
         /\ pol.leaves + Len(adds) <= MaxLeaves
         /\ Len(stumpAdded) + Len(adds) <= MaxLeaves
         /\ Len(P2.heap) <= MaxNodes
         /\ pol' = P2
         /\ polAdded' = polAdded \o adds
         /\ polDeleted' = polDeleted \cup D
         /\ polUndo' = UndoDataOf(adds, R)
         /\ stump' = StumpModifyResult(stump, utxos, stxos)
         /\ stumpAdded' = stumpAdded \o utxos
         /\ UNCHANGED <<old, last, polUndos, polLast, bindVars, hashVars>>

\* the call with any leaves, alike or not
Modify == ModifyWith(PollardAddLists)

\* the lists of PollardAddition of a caller whose leaves all differ: the
\* leaves are h(0), h(1), ... in order, each remembered or not
DistinctAddLists ==
  UNION {{[i \in 1..n |-> [hash |-> LeafHash(Len(polAdded) + i),
                           remember |-> rs[i]]] : rs \in [1..n -> BOOLEAN]} :
           n \in 0..MaxAdds}

\* the call with leaves that all differ
ModifyDistinct == ModifyWith(DistinctAddLists)

SpecDistinct == Init /\ [][ModifyDistinct]_vars

\* acc.undo(undo_data) with the UndoData of the last modify call
Undo ==
  /\ pol.status = "ok"
  /\ polUndo.num_adds > 0
  /\ polUndos < MaxUndos
  /\ pol' = PollardUndo(pol, polUndo)
  /\ polAdded' = SubSeq(polAdded, 1, Len(polAdded) - polUndo.num_adds)
  /\ polDeleted' = polDeleted \cap (0..(Len(polAdded) - polUndo.num_adds - 1))
  /\ polUndo' = NoUndo
  /\ polUndos' = polUndos + 1
  /\ UNCHANGED <<stumpVars, last, polLast, bindVars, hashVars>>

Next == Modify

Spec == Init /\ [][Next]_vars

NextUndo == Modify \/ Undo

SpecUndo == Init /\ [][NextUndo]_vars

\* modify and undo calls of a caller whose leaves all differ
NextDistinctUndo == ModifyDistinct \/ Undo

SpecDistinctUndo == Init /\ [][NextDistinctUndo]_vars

\* the leaves of a list given with remember = false
Forgotten(adds) == Cardinality({i \in 1..Len(adds) : ~adds[i].remember})

\* acc.modify(&adds, &[]) on a pollard that takes additions alone: the
\* leaves are h(0), h(1), ... in order, all different
AddLeaves ==
  \E n \in 1..MaxAdds :
    \E rs \in [1..n -> BOOLEAN] :
      LET adds == [i \in 1..n |->
                     [hash |-> LeafHash(Len(polAdded) + i), remember |-> rs[i]]]
          R == ModifyRaw(pol, adds, <<>>)
      IN /\ pol.status = "ok"
         /\ pol.leaves + n <= AddMaxLeaves
         /\ Forgotten(polAdded \o adds) <= MaxForgotten
         /\ pol' = ModifyEnd(pol, R)
         /\ polAdded' = polAdded \o adds
         /\ polUndo' = UndoDataOf(adds, R)
         /\ UNCHANGED <<polDeleted, polUndos, polLast, stumpVars, last,
                        bindVars, hashVars>>

SpecAdd == Init /\ [][AddLeaves]_vars

\* acc.modify(&adds, &[]) with leaves that are all remembered and whose
\* hashes may repeat
AddRepeated ==
  \E n \in 1..MaxAdds :
    \E ks \in [1..n -> 1..RepNumHashes] :
      LET adds == [i \in 1..n |->
                     [hash |-> LeafHash(ks[i]), remember |-> TRUE]]
          R == ModifyRaw(pol, adds, <<>>)
      IN /\ pol.status = "ok"
         /\ pol.leaves + n <= RepMaxLeaves
         /\ pol' = ModifyEnd(pol, R)
         /\ polAdded' = polAdded \o adds
         /\ polUndo' = UndoDataOf(adds, R)
         /\ UNCHANGED <<polDeleted, polUndos, polLast, stumpVars, last,
                        bindVars, hashVars>>

SpecAddRepeated == Init /\ [][AddRepeated]_vars

\* the positions of a forest of AtMaxLeaves leaves, the roots included
Positions == 0..(Pow2(TreeRows(AtMaxLeaves) + 1) - 2)

\* acc.modify(&adds, &[]) and acc.modify(&adds, &[pos]) with any position,
\* present in the forest or not; the leaves added all differ.  polDeleted
\* collects the positions handed in.
ModifyAt ==
  \E adds \in DistinctAddLists :
    \E D \in {{}} \cup {{pos} : pos \in Positions} :
      LET dels == SortedSeq(D)
          R == ModifyRaw(pol, adds, dels)
          P2 == ModifyEnd(pol, R)
      IN /\ pol.status = "ok"
         /\ Len(adds) + Len(dels) > 0
         /\ pol.leaves + Len(adds) <= AtMaxLeaves
         /\ Len(P2.heap) <= MaxNodes
         /\ pol' = P2
         /\ polAdded' = polAdded \o adds
         /\ polDeleted' = polDeleted \cup D
         /\ polUndo' = UndoDataOf(adds, R)
         /\ polLast' = [called |-> TRUE, adds |-> adds, dels |-> dels,
                         ret |-> IF P2.status = "ok" THEN "unit" ELSE "abort"]
         /\ UNCHANGED <<polUndos, stumpVars, last, bindVars, hashVars>>

SpecAt == Init /\ [][ModifyAt]_vars

(***************************************************************************)
(* The bindings of the stump (c-rustreexo/src/stump.rs, wasm/src/lib.rs,   *)
(* ffi/src/lib.rs).  A behaviour drives the stump of one binding.          *)
(***************************************************************************)
BindLeafHashes == {LeafHash(k) : k \in 1..BindNumHashes}

BindProofHashes == BindLeafHashes \cup {Empty}

SeqsUpTo(S, n) == UNION {[1..k -> S] : k \in 0..n}

\* the proofs a caller may hand in for a stump of `leafs` leaves
BindProofs(leafs) ==
  {[targets |-> t, hashes |-> h] :
     t \in SeqsUpTo(0..(leafs - 1), BindMaxDels),
     h \in SeqsUpTo(BindProofHashes, MaxProofHashes)}

\* what a read of the roots gives once their buffer is released: the old
\* content, or whatever the allocator put there
ReadFreed(roots) ==
  IF roots = <<>> THEN {roots}
  ELSE {roots} \cup [1..Len(roots) -> BindProofHashes]

\* rustreexo_stump_modify(errno, stump, utxos, n, del_hashes, n, proof) with
\* pointers that are not null.  get_safe_ty(stump) is a bitwise copy of the
\* caller's Stump that shares the buffer of its roots; the copy is dropped
\* when the function returns.  On Ok the caller's Stump is overwritten
\* first; on Err it still points at the buffer the drop releases (a Vec
\* without elements has no buffer).
CStumpModify ==
  /\ bind.api \in {"none", "c"}
  /\ ~cstump.freed
  /\ \E utxos \in SeqsUpTo(BindLeafHashes, MaxAdds),
        del_hashes \in SeqsUpTo(BindLeafHashes, BindMaxDels),
        proof \in BindProofs(cstump.leafs) :
       LET r_stump == [leafs |-> cstump.leafs, roots |-> cstump.roots]
           s == StumpModifyCore(r_stump, utxos, del_hashes, proof)
       IN /\ cstump.leafs + Len(utxos) <= BindMaxLeaves
          /\ IF s.ok
             THEN cstump' = [leafs |-> s.stump.leafs, roots |-> s.stump.roots,
                             freed |-> FALSE]
             ELSE \E seen \in ReadFreed(cstump.roots) :
                    cstump' = [leafs |-> cstump.leafs, roots |-> seen,
                               freed |-> cstump.roots # <<>>]
          /\ bind' = [api |-> "c", ok |-> s.ok, pre |-> r_stump,
                      n_utxos |-> Len(utxos)]
  /\ UNCHANGED <<wstump, ustump, cerrno, ccall, accVars, hashVars>>

\* Stump::modify_js(utxos, stxos, proof): self.0 is assigned after the `?`
WasmModifyJs ==
  /\ bind.api \in {"none", "wasm"}
  /\ \E utxos \in SeqsUpTo(BindLeafHashes, MaxAdds),
        stxos \in SeqsUpTo(BindLeafHashes, BindMaxDels),
        proof \in BindProofs(wstump.leafs) :
       LET s == StumpModifyCore(wstump, utxos, stxos, proof)
       IN /\ wstump.leafs + Len(utxos) <= BindMaxLeaves
          /\ wstump' = IF s.ok THEN s.stump ELSE wstump
          /\ bind' = [api |-> "wasm", ok |-> s.ok, pre |-> wstump,
                      n_utxos |-> Len(utxos)]
  /\ UNCHANGED <<cstump, ustump, cerrno, ccall, accVars, hashVars>>

\* Stump::modify(&self, utxos, stxos, proof) of the uniffi binding: the Ok
\* value of self.inner.modify, the new stump, is dropped by the `?`
\* statement and self.inner stays as it was
FfiModify ==
  /\ bind.api \in {"none", "uniffi"}
  /\ \E utxos \in SeqsUpTo(BindLeafHashes, MaxAdds),
        stxos \in SeqsUpTo(BindLeafHashes, BindMaxDels),
        proof \in BindProofs(ustump.leafs) :
       LET s == StumpModifyCore(ustump, utxos, stxos, proof)
       IN /\ ustump.leafs + Len(utxos) <= BindMaxLeaves
          /\ ustump' = ustump
          /\ bind' = [api |-> "uniffi", ok |-> s.ok, pre |-> ustump,
                      n_utxos |-> Len(utxos)]
  /\ UNCHANGED <<cstump, wstump, cerrno, ccall, accVars, hashVars>>

NextBind == CStumpModify \/ WasmModifyJs \/ FfiModify

SpecBind == Init /\ [][NextBind]_vars

(***************************************************************************)
(* The C binding called with pointers that may be null                     *)
(* (c-rustreexo/src/stump.rs, proof.rs, the macros of lib.rs).  Arrays     *)
(* that are not null hold as many hashes as their count says, and a proof  *)
(* is handed to one call only.                                             *)
(***************************************************************************)
\* Proof::verify(&hashes, &stump) of the library: Err when the roots cannot
\* be computed, else Ok(whether they are the roots of the stump)
VerifyResult(proof, del_hashes, s) ==
  IF ~CalculateHashes(proof, del_hashes, s.leafs).ok THEN "err"
  ELSE IF Verify(proof, del_hashes, s) THEN "true"
  ELSE "false"

\* the record of a call
CCall(fn, null, n_utxos, n_dels, outcome, ret, aborted) ==
  [fn |-> fn, null |-> null, n_utxos |-> n_utxos, n_dels |-> n_dels,
   outcome |-> outcome, ret |-> ret, aborted |-> aborted,
   pre |-> [leafs |-> cstump.leafs, roots |-> cstump.roots],
   pre_errno |-> cerrno]

\* rustreexo_stump_modify(errno, stump, utxos, utxos_len, del_hashes,
\* del_hashes_len, proof): the check_ptr! lines first.  get_slice on a null
\* array of count 0 is slice::from_raw_parts(null, 0), undefined behaviour:
\* a build with debug assertions aborts there, another one goes on with an
\* empty slice.  The rest is as in CStumpModify.
CStumpModifyPtrs ==
  /\ ~cstump.freed
  /\ ~ccall.aborted
  /\ \E null \in NullFlags, n_utxos \in 0..MaxAdds, n_dels \in 0..BindMaxDels :
       /\ cstump.leafs + n_utxos <= PtrMaxLeaves
       /\ IF null.errno
          THEN /\ ccall' = CCall("modify", null, n_utxos, n_dels, "none", 0,
                                 FALSE)
               /\ UNCHANGED <<cstump, cerrno>>
          ELSE IF \/ null.stump
                  \/ null.utxos /\ n_utxos > 0
                  \/ null.dels /\ n_dels > 0
                  \/ null.proof
          THEN /\ ccall' = CCall("modify", null, n_utxos, n_dels, "none", 0,
                                 FALSE)
               /\ cerrno' = "NullPointer"
               /\ UNCHANGED cstump
          ELSE \/ /\ null.utxos \/ null.dels
                  /\ ccall' = CCall("modify", null, n_utxos, n_dels, "none",
                                    0, TRUE)
                  /\ UNCHANGED <<cstump, cerrno>>
               \/ \E utxos \in [1..n_utxos -> BindLeafHashes],
                     del_hashes \in [1..n_dels -> BindLeafHashes],
                     proof \in BindProofs(cstump.leafs) :
                    LET r_stump == [leafs |-> cstump.leafs,
                                    roots |-> cstump.roots]
                        s == StumpModifyCore(r_stump, utxos, del_hashes, proof)
                    IN /\ IF s.ok
                          THEN cstump' = [leafs |-> s.stump.leafs,
                                          roots |-> s.stump.roots,
                                          freed |-> FALSE]
                          ELSE \E seen \in ReadFreed(cstump.roots) :
                                 cstump' = [leafs |-> cstump.leafs,
                                            roots |-> seen,
                                            freed |-> cstump.roots # <<>>]
                       /\ ccall' = CCall("modify", null, n_utxos, n_dels,
                                         IF s.ok THEN "ok" ELSE "err",
                                         IF s.ok THEN 1 ELSE 0, FALSE)
                       /\ UNCHANGED cerrno
  /\ UNCHANGED <<wstump, ustump, bind, accVars, hashVars>>

\* rustreexo_proof_verify(errno, del_hashes, n_dels, proof, stump), the
\* array del_hashes not null.  get_safe_ty(stump) is a bitwise copy of the
\* caller's Stump that shares the buffer of its roots; the copy is dropped
\* when the function returns, and the caller's Stump still points at the
\* buffer the drop releases.
CProofVerify ==
  /\ ~cstump.freed
  /\ ~ccall.aborted
  /\ \E null \in {f \in NullFlags : ~f.utxos /\ ~f.dels},
        del_hashes \in SeqsUpTo(BindLeafHashes, BindMaxDels),
        proof \in BindProofs(cstump.leafs) :
       IF null.errno
       THEN /\ ccall' = CCall("verify", null, 0, Len(del_hashes), "none", 0,
                              FALSE)
            /\ UNCHANGED <<cstump, cerrno>>
       ELSE IF null.proof \/ null.stump
       THEN /\ ccall' = CCall("verify", null, 0, Len(del_hashes), "none", 0,
                              FALSE)
            /\ cerrno' = "NullPointer"
            /\ UNCHANGED cstump
       ELSE LET v == VerifyResult(proof, del_hashes,
                                  [leafs |-> cstump.leafs,
                                   roots |-> cstump.roots])
            IN /\ \E seen \in ReadFreed(cstump.roots) :
                    cstump' = [leafs |-> cstump.leafs, roots |-> seen,
                               freed |-> cstump.roots # <<>>]
               /\ cerrno' = IF v = "true" THEN cerrno
                            ELSE IF v = "false" THEN "InvalidProof"
                            ELSE "UtreexoError"
               /\ ccall' = CCall("verify", null, 0, Len(del_hashes), v,
                                 IF v = "true" THEN 1 ELSE 0, FALSE)
  /\ UNCHANGED <<wstump, ustump, bind, accVars, hashVars>>

\* rustreexo_proof_parse(errno, parsed_proof, proof, length): the bytes
\* either deserialize to a proof or do not
CProofParse ==
  /\ ~cstump.freed
  /\ ~ccall.aborted
  /\ \E null \in [errno : BOOLEAN, parsed_proof : BOOLEAN, proof : BOOLEAN],
        wellformed \in BOOLEAN :
       IF null.errno
       THEN /\ ccall' = CCall("parse", null, 0, 0, "none", 0, FALSE)
            /\ UNCHANGED cerrno
       ELSE IF null.parsed_proof \/ null.proof
       THEN /\ ccall' = CCall("parse", null, 0, 0, "none", 0, FALSE)
            /\ cerrno' = "NullPointer"
       ELSE /\ ccall' = CCall("parse", null, 0, 0,
                              IF wellformed THEN "ok" ELSE "err",
                              IF wellformed THEN 1 ELSE 0, FALSE)
            /\ UNCHANGED cerrno
  /\ UNCHANGED <<cstump, wstump, ustump, bind, accVars, hashVars>>

\* rustreexo_proof_serialize(errno, out, ser_len, proof), ser_len not null:
\* out and proof are checked with the one-argument check_ptr!, which
\* returns without a write to *errno
CProofSerialize ==
  /\ ~cstump.freed
  /\ ~ccall.aborted
  /\ \E null \in [errno : BOOLEAN, out : BOOLEAN, proof : BOOLEAN] :
       IF null.errno \/ null.out \/ null.proof
       THEN ccall' = CCall("serialize", null, 0, 0, "none", 0, FALSE)
       ELSE ccall' = CCall("serialize", null, 0, 0, "ok", 1, FALSE)
  /\ UNCHANGED <<cerrno, cstump, wstump, ustump, bind, accVars, hashVars>>

NextPtrs ==
  CStumpModifyPtrs \/ CProofVerify \/ CProofParse \/ CProofSerialize

SpecPtrs == Init /\ [][NextPtrs]_vars

(***************************************************************************)
(* NodeHash::parent_hash called on its own (wasm_node_hash.rs)             *)
(***************************************************************************)
\* the hashes a caller may hand in: Empty, the placeholder, the hash of 32
\* zero bytes, leaf hashes, and parent hashes of two leaf hashes
HashInputs ==
  LET leaves == {LeafHash(k) : k \in 1..NumHashes}
  IN {Empty, Placeholder, Value(ZeroBytes)} \cup leaves
       \cup {NodeParentHash(a, b) : a \in leaves, b \in leaves}

\* NodeHash::parent_hash(&left, &right)
ParentHashCall ==
  \E left \in HashInputs, right \in HashInputs :
    /\ ph' = [called |-> TRUE, left |-> left, right |-> right,
              out |-> NodeParentHash(left, right)]
    /\ UNCHANGED <<accVars, bindVars, eqc, mu, rt>>

SpecHash == Init /\ [][ParentHashCall]_vars

\* left == right on two NodeHash
EqCall ==
  \E left \in HashInputs, right \in HashInputs :
    /\ eqc' = [called |-> TRUE, left |-> left, right |-> right,
               out |-> NodeHashEq(left, right)]
    /\ UNCHANGED <<accVars, bindVars, ph, mu, rt>>

SpecEq == Init /\ [][EqCall]_vars

(***************************************************************************)
(* PollardNode::migrate_up called on nodes put together by hand, as in     *)
(* tests::test_migrate_up (pollard.rs): a grandparent whose nieces are the *)
(* aunt and one other node, and the aunt's nieces, the node itself and its *)
(* sibling.                                                                *)
(***************************************************************************)
\* the cells of the five nodes
GrandparentId == 1
AuntId == 2
ParentId == 3
SiblingId == 4
SelfId == 5

\* the hashes the five nodes may be given
MigrateHashes == {LeafHash(k) : k \in 1..MigrateNumHashes}

\* the nodes as the test builds them: hs are their hashes, a_left tells
\* whether the aunt is the left niece of the grandparent, x_left whether
\* the node is the left niece of the aunt
MigrateHeap(hs, a_left, x_left) ==
  LET node(i) == MkNode(hs[i], TRUE)
  IN <<[node(GrandparentId) EXCEPT
          !.left = IF a_left THEN AuntId ELSE ParentId,
          !.right = IF a_left THEN ParentId ELSE AuntId],
       [node(AuntId) EXCEPT
          !.aunt = GrandparentId,
          !.left = IF x_left THEN SelfId ELSE SiblingId,
          !.right = IF x_left THEN SiblingId ELSE SelfId],
       [node(ParentId) EXCEPT !.aunt = AuntId],
       [node(SiblingId) EXCEPT !.aunt = AuntId],
       [node(SelfId) EXCEPT !.aunt = AuntId]>>

\* _self.migrate_up() on such nodes, the caller holding all five; the
\* nodes are built once and the call is made once
MigrateUpCall ==
  \E hs \in [1..5 -> MigrateHashes], a_left \in BOOLEAN, x_left \in BOOLEAN :
    LET pre == MigrateHeap(hs, a_left, x_left)
        r == MigrateUp(pre, SelfId, 1..5)
    IN /\ ~mu.called
       /\ mu' = [called |-> TRUE, a_left |-> a_left, x_left |-> x_left,
                 pre |-> pre, post |-> r.heap, status |-> r.status]
       /\ UNCHANGED <<accVars, bindVars, ph, eqc, rt>>

SpecMigrate == Init /\ [][MigrateUpCall]_vars

(***************************************************************************)
(* PoseidonHash of examples/custom-hash-type.rs: a hash is [ty, felt], ty  *)
(* one of "Hash", "Placeholder", "Empty" and felt the field element of a   *)
(* Hash (0 otherwise).  The field elements are those up to MaxFelt, all    *)
(* below the modulus of the field, so that Felt::from_bytes_be reduces     *)
(* nothing.                                                                *)
(***************************************************************************)
\* the length of a serialized hash
HashBytes == 32

PoseidonOf(felt) == [ty |-> "Hash", felt |-> felt]

PoseidonPlaceholder == [ty |-> "Placeholder", felt |-> 0]

PoseidonEmpty == [ty |-> "Empty", felt |-> 0]

PoseidonHashes ==
  {PoseidonOf(x) : x \in 0..MaxFelt} \cup {PoseidonPlaceholder, PoseidonEmpty}

\* Felt::to_bytes_be: the n low bytes of x, the most significant first
RECURSIVE ToBytesBe(_, _)
ToBytesBe(x, n) ==
  IF n = 0 THEN <<>> ELSE Append(ToBytesBe(x \div 256, n - 1), x % 256)

\* Felt::from_bytes_be: the number the bytes spell
RECURSIVE FromBytesBe(_)
FromBytesBe(buf) ==
  IF buf = <<>> THEN 0
  ELSE 256 * FromBytesBe(SubSeq(buf, 1, Len(buf) - 1)) + buf[Len(buf)]

\* PoseidonHash::write
PoseidonWrite(h) ==
  IF h.ty = "Hash" THEN ToBytesBe(h.felt, HashBytes)
  ELSE [i \in 1..HashBytes |-> 0]

\* PoseidonHash::read
PoseidonRead(buf) ==
  IF \A i \in 1..HashBytes : buf[i] = 0 THEN PoseidonEmpty
  ELSE PoseidonOf(FromBytesBe(buf))

\* h.write(&mut w) and then PoseidonHash::read on the bytes written
PoseidonRoundTrip ==
  \E h \in PoseidonHashes :
    /\ rt' = [called |-> TRUE, h |-> h, bytes |-> PoseidonWrite(h),
              back |-> PoseidonRead(PoseidonWrite(h))]
    /\ UNCHANGED <<accVars, bindVars, ph, eqc, mu>>

SpecPoseidon == Init /\ [][PoseidonRoundTrip]_vars

(***************************************************************************)
(* Claims about the stump                                                  *)
(***************************************************************************)
\* C3: in every state reachable from Stump::new by modify and undo(old),
\* the number of stored roots equals popcount(leafs).
C3_RootCount == Len(stump.roots) = PopCount(stump.leafs)

\* C3 witness: an undo has taken the stump back to a state with two roots
C3_Witness ==
  /\ last.op = "undo"
  /\ last.pre.leafs = 4
  /\ old.leafs = 3
  /\ stump.leafs = 3
  /\ Len(stump.roots) = 2

\* the Merkle root of a block of 2^k leaves under the host hash
RECURSIVE MerkleRoot(_)
MerkleRoot(block) ==
  IF Len(block) = 1 THEN block[1]
  ELSE LET half == Len(block) \div 2
       IN Value(<<MerkleRoot(SubSeq(block, 1, half)).val,
                  MerkleRoot(SubSeq(block, half + 1, Len(block))).val>>)

\* the roots of the leaves `added`: one per set bit k of the count, most
\* significant first, each over the next 2^k leaves in insertion order
RECURSIVE MerkleRootsFrom(_, _, _)
MerkleRootsFrom(added, start, k) ==
  IF k < 0 THEN <<>>
  ELSE IF Bit(Len(added), k) = 1
       THEN <<MerkleRoot(SubSeq(added, start, start + Pow2(k) - 1))>>
            \o MerkleRootsFrom(added, start + Pow2(k), k - 1)
       ELSE MerkleRootsFrom(added, start, k - 1)

\* C4: after adding n leaves in order to a fresh Stump, leafs = n and the
\* roots are, for each set bit k of n (most significant first), the Merkle
\* root of the corresponding block of 2^k leaves; 8 leaves give one root.
C4_MerkleRoots ==
  /\ stump.leafs = Len(stumpAdded)
  /\ stump.roots = MerkleRootsFrom(stumpAdded, 1, StumpMaxLeaves)
  /\ stump.leafs = 8 => stump.roots = <<MerkleRoot(stumpAdded)>>

\* C4 witness: eight leaves, not all alike, under a single root
C4_Witness ==
  /\ stump.leafs = 8
  /\ Len(stump.roots) = 1
  /\ stumpAdded[1] # stumpAdded[2]
  /\ stumpAdded[5] # stumpAdded[8]

\* C7 (as claimed): a modify with a non-empty deletion list does not give
\* the stump that the same additions with no deletion give.
C7_DeletionsApplied ==
  (last.op = "modify" /\ last.dels # <<>>)
    => stump # StumpModifyResult(last.pre, last.adds, <<>>)

\* C9: after s.undo(old), s.leafs = old.leafs and s.roots = old.roots; a
\* clone, additions and an undo give back the stump that was cloned.
C9_UndoRestores ==
  last.op = "undo"
    => /\ stump.leafs = old.leafs
       /\ stump.roots = old.roots

\* C9 witness: an undo after additions made on top of a non-empty clone
C9_Witness ==
  /\ last.op = "undo"
  /\ old.leafs = 2
  /\ last.pre.leafs = 4
  /\ stump.roots = old.roots
  /\ stump.roots # last.pre.roots

(***************************************************************************)
(* Claims about the pollard                                                *)
(***************************************************************************)
\* the root hashes of a pollard from row r down to row 0
RECURSIVE RootHashesFrom(_, _)
RootHashesFrom(P, r) ==
  IF r < 0 THEN <<>>
  ELSE (IF P.roots[r] # 0 THEN <<P.heap[P.roots[r]].hash>> ELSE <<>>)
         \o RootHashesFrom(P, r - 1)

PollardRootHashes(P) == RootHashesFrom(P, RootSlots - 1)

\* C1 (as claimed): after the same modifications, the stump's root list is
\* the pollard's root hashes read from the highest occupied row down to 0.
C1_Agreement ==
  pol.status = "ok" => stump.roots = PollardRootHashes(pol)

\* the nodes of a pollard: the cells reachable from its roots
PollardNodes(P) == Live(P.heap, RootIds(P))

Cached(heap, n) == heap[n].left # 0 /\ heap[n].right # 0

HashOfNieces(heap, n) ==
  NodeParentHash(heap[heap[n].left].hash, heap[heap[n].right].hash)

\* C2 (as claimed): a root with cached children has the parent hash of its
\* nieces; a node below a root, whose sibling has cached nieces, has the
\* parent hash of its sibling's nieces.
C2_Merkle ==
  pol.status = "ok" =>
    \A x \in PollardNodes(pol) :
      Cached(pol.heap, x) =>
        LET l == pol.heap[x].left
            r == pol.heap[x].right
        IN /\ x \in RootIds(pol) => pol.heap[x].hash = HashOfNieces(pol.heap, x)
           /\ Cached(pol.heap, r) => pol.heap[l].hash = HashOfNieces(pol.heap, r)
           /\ Cached(pol.heap, l) => pol.heap[r].hash = HashOfNieces(pol.heap, l)

\* C5 (as claimed): after any modify and undo calls, root slot r is occupied
\* if and only if bit r of leaves is 1.
C5_RowOccupancy ==
  pol.status = "ok" =>
    \A r \in Rows : (pol.roots[r] # 0) <=> (Bit(pol.leaves, r) = 1)

\* impl PartialEq for Pollard: slot by slot, both None or equal hashes
PollardEq(P, Q) ==
  \A r \in Rows :
    /\ (P.roots[r] = 0) <=> (Q.roots[r] = 0)
    /\ P.roots[r] # 0 => P.heap[P.roots[r]].hash = Q.heap[Q.roots[r]].hash

\* C10 (as claimed): when n + 1 remembered leaves were added to a fresh
\* pollard and the last addition is undone, the root slots are those of a
\* fresh pollard to which the first n leaves were added.
C10_AddUndo ==
  [][(/\ polUndo.num_adds = 1
      /\ Len(polAdded') = Len(polAdded) - 1
      /\ polDeleted = {}
      /\ \A i \in 1..Len(polAdded) : polAdded[i].remember)
     => /\ pol'.status = "ok"
        /\ PollardEq(pol', PollardModify(PollardNew, polAdded', <<>>))]_vars

\* the proof Pollard::prove gives for the positions T: the targets and the
\* hash lists of the detwinned positions, one after the other
RECURSIVE Flatten(_)
Flatten(lists) ==
  IF lists = <<>> THEN <<>> ELSE Head(lists).hashes \o Flatten(Tail(lists))

ProofOf(P, T) ==
  LET proved == Prove(P, SortedSeq(T))
  IN [ok |-> \A i \in 1..Len(proved) : proved[i].status = "ok",
      targets |-> SortedSeq(T),
      hashes |-> Flatten(proved)]

\* the stump of a pollard: its leaf counter and its root hashes
StumpOf(P) == [leafs |-> P.leaves, roots |-> PollardRootHashes(P)]

\* the leaf positions whose node the pollard holds
PresentIn(P) ==
  {t \in 0..(P.leaves - 1) : GrabPosition(P, t).kind = "some"}

RoundTrip(P, T) ==
  LET proof == ProofOf(P, T)
      targets == SortedSeq(T)
  IN /\ proof.ok
     /\ Verify([targets |-> proof.targets, hashes |-> proof.hashes],
               [i \in 1..Len(targets) |-> GetHash(P, targets[i])],
               StumpOf(P))

\* C6 (as claimed): for a pollard reached by modify and a set T of positions
\* whose nodes it holds, the proof of prove(T) and the hashes of the targets
\* verify against the stump of the pollard.
C6_RoundTrip ==
  pol.status = "ok" =>
    \A T \in SUBSET PresentIn(pol) :
      (T # {} /\ Cardinality(T) <= MaxTargets) => RoundTrip(pol, T)

\* C11: deletions never change the leaf counter: after any sequence of modify
\* calls that returned, leaves is the number of leaves ever added, whatever
\* was deleted (every call adds k to it, its k additions).
C11_LeavesCount ==
  pol.status = "ok" => pol.leaves = Len(polAdded)

\* C11 witness: four leaves were added and three of them deleted
C11_Witness ==
  /\ pol.status = "ok"
  /\ Len(polAdded) = 4
  /\ pol.leaves = 4
  /\ Cardinality(polDeleted) >= 3

\* what a caller reads in root slot r: nothing, or the hash of its node
SlotView(P, r) ==
  IF P.roots[r] = 0 THEN <<>> ELSE <<P.heap[P.roots[r]].hash>>

\* the positions one modify call deletes once they are detwinned
Targets(P, D) == Detwin(SortedSeq(D), TreeRows(P.leaves))

\* C12 (as claimed): a modify call that adds nothing and whose deletions
\* come to one position that is the root of row r returns, leaves an
\* Empty-hash node in slot r, and leaves the other slots and leaves as they
\* were.
C12_RootDeletion ==
  [][LET tw == Targets(pol, polDeleted' \ polDeleted)
         off == DetectOffset(tw[1], pol.leaves)
         r == off.root
     IN (/\ pol.status = "ok"
         /\ polAdded' = polAdded
         /\ Len(tw) = 1
         /\ off.status = "ok"
         /\ off.depth = 0
         /\ pol.roots[r] # 0)
        => /\ pol'.status = "ok"
           /\ SlotView(pol', r) = <<Empty>>
           /\ \A q \in Rows \ {r} : SlotView(pol', q) = SlotView(pol, q)
           /\ pol'.leaves = pol.leaves]_vars

\* C13 (as claimed): a modify call that adds nothing and whose deletions come to one
\* position whose parent is the root of row r returns with the hash of the
\* position's sibling in slot r and with the other slots as they were.
C13_PromoteSibling ==
  [][LET tw == Targets(pol, polDeleted' \ polDeleted)
         off == DetectOffset(tw[1], pol.leaves)
         g == GrabPosition(pol, tw[1])
         r == off.root
     IN (/\ pol.status = "ok"
         /\ polAdded' = polAdded
         /\ Len(tw) = 1
         /\ off.status = "ok"
         /\ off.depth = 1
         /\ g.kind = "some")
        => /\ pol'.status = "ok"
           /\ SlotView(pol', r) = <<pol.heap[g.sib].hash>>
           /\ \A q \in Rows \ {r} : SlotView(pol', q) = SlotView(pol, q)]_vars

\* C14 (as claimed): in the pollard of four distinct remembered leaves
\* h(0)..h(3) from which position 3 was deleted, the only root is in row 2,
\* its hash is parent_hash(parent_hash(h(0), h(1)), h(2)), its left child has
\* the hash parent_hash(h(0), h(1)) and its right child the hash h(2).
C14_MigrateUp ==
  (/\ Len(polAdded) = 4
   /\ \A i \in 1..4 : polAdded[i].remember
   /\ \A i, j \in 1..4 : i # j => polAdded[i].hash # polAdded[j].hash
   /\ polDeleted = {3})
  => LET h01 == NodeParentHash(polAdded[1].hash, polAdded[2].hash)
         root == pol.roots[2]
     IN /\ pol.status = "ok"
        /\ \A r \in Rows : (pol.roots[r] # 0) <=> (r = 2)
        /\ pol.heap[root].hash = NodeParentHash(h01, polAdded[3].hash)
        /\ pol.heap[root].left # 0
        /\ pol.heap[root].right # 0
        /\ pol.heap[pol.heap[root].left].hash = h01
        /\ pol.heap[pol.heap[root].right].hash = polAdded[3].hash

\* the number of owning references (root slots and niece fields) to cell x
Owners(P, x) ==
  Cardinality({r \in Rows : P.roots[r] = x})
    + Cardinality({y \in 1..Len(P.heap) : P.heap[y].left = x})
    + Cardinality({y \in 1..Len(P.heap) : P.heap[y].right = x})

\* the cells owned, directly or through other cells, by the cells of S
RECURSIVE OwnedBelow(_, _, _)
OwnedBelow(heap, S, seen) ==
  LET next == (UNION {{heap[y].left, heap[y].right} : y \in S}) \ ({0} \cup seen)
  IN IF next = {} THEN seen ELSE OwnedBelow(heap, next, seen \cup next)

\* C15 (as claimed): in every state reachable by modify and undo, every node
\* has exactly one owner (a root slot or a niece field) and no node owns
\* itself through a chain of niece references.
C15_Forest ==
  pol.status = "ok" =>
    \A x \in 1..Len(pol.heap) :
      /\ Owners(pol, x) = 1
      /\ x \notin OwnedBelow(pol.heap, {x}, {})

\* C16 (as claimed): in every state reachable by modify and undo, the aunt
\* of every node below a root is a live node of the pollard that holds the
\* node as a niece, and the node's sibling is one of that aunt's nieces.
C16_AuntNiece ==
  pol.status = "ok" =>
    \A x \in PollardNodes(pol) \ RootIds(pol) :
      LET a == AuntOf(pol.heap, x)
          sib == SiblingOf(pol.heap, x)
      IN /\ a # 0
         /\ a \in PollardNodes(pol)
         /\ x \in {pol.heap[a].left, pol.heap[a].right}
         /\ sib # 0
         /\ sib \in {pol.heap[a].left, pol.heap[a].right}

\* every leaf of the pollard was added with remember = true
AllRemembered == \A i \in 1..Len(polAdded) : polAdded[i].remember

\* leaf p is a tree of its own: the last leaf of an odd number of leaves
LoneLeaf(n, p) == n % 2 = 1 /\ p = n - 1

\* C17: in a pollard built by additions with remember = true, for every
\* p < leaves, grab_position(p) returns the node with the hash of the p-th
\* leaf added, paired with the node of position p XOR 1 when p is not a root.
C17_GrabPosition ==
  (pol.status = "ok" /\ AllRemembered) =>
    \A p \in 0..(pol.leaves - 1) :
      LET g == GrabPosition(pol, p)
      IN /\ g.kind = "some"
         /\ pol.heap[g.node].hash = polAdded[p + 1].hash
         /\ ~LoneLeaf(pol.leaves, p)
              => pol.heap[g.sib].hash = polAdded[Sibling(p) + 1].hash

\* C17 witness: fifteen remembered leaves; position 13 is found two rows
\* below the root of the third tree, with position 12 as its sibling
C17_Witness ==
  /\ pol.status = "ok"
  /\ AllRemembered
  /\ pol.leaves = 15
  /\ GrabPosition(pol, 13).kind = "some"
  /\ DetectOffset(13, 15).root = 1
  /\ pol.heap[GrabPosition(pol, 13).sib].hash = LeafHash(13)
  /\ pol.heap[GrabPosition(pol, 6).node].hash = LeafHash(7)

\* the Merkle root of a block of 2^k leaf hashes under NodeHash::parent_hash
RECURSIVE NodeMerkleRoot(_)
NodeMerkleRoot(block) ==
  IF Len(block) = 1 THEN block[1]
  ELSE LET half == Len(block) \div 2
       IN NodeParentHash(NodeMerkleRoot(SubSeq(block, 1, half)),
                         NodeMerkleRoot(SubSeq(block, half + 1, Len(block))))

\* the tree of leaf p among n leaves: its row and its first leaf; the trees
\* are the set bits of n, the largest first
RECURSIVE TreeOf(_, _, _, _)
TreeOf(n, p, k, start) ==
  IF Bit(n, k) = 1 /\ p < start + Pow2(k) THEN [row |-> k, start |-> start]
  ELSE TreeOf(n, p, k - 1, IF Bit(n, k) = 1 THEN start + Pow2(k) ELSE start)

\* the Merkle branch of leaf p: for every row j below the root of its tree,
\* lowest first, the root of the block of 2^j leaves next to the block of p
Branch(hashes, p) ==
  LET t == TreeOf(Len(hashes), p, TreeRows(Len(hashes)), 0)
  IN [j \in 1..t.row |->
        LET size == Pow2(j - 1)
            q == (p - t.start) \div size
            sq == IF q % 2 = 0 THEN q + 1 ELSE q - 1
        IN NodeMerkleRoot(SubSeq(hashes, t.start + sq * size + 1,
                                 t.start + (sq + 1) * size))]

LeafHashesOf(adds) == [i \in 1..Len(adds) |-> adds[i].hash]

\* C18: in a pollard built by additions with remember = true, for a leaf p
\* that is not a root, prove_single(p) returns the hash of p's sibling and
\* then the hashes of the aunts above, lowest first, without the root: as
\* many hashes as p is rows below the root of its tree.
C18_ProveSingle ==
  (pol.status = "ok" /\ AllRemembered) =>
    \A p \in 0..(pol.leaves - 1) :
      ~LoneLeaf(pol.leaves, p) =>
        LET pr == ProveSingle(pol, p)
        IN /\ pr.status = "ok"
           /\ pr.hashes = Branch(LeafHashesOf(polAdded), p)
           /\ Len(pr.hashes)
                = TreeOf(pol.leaves, p, TreeRows(pol.leaves), 0).row

\* C18 witness: six remembered leaves; prove_single(3) is h(2), then
\* parent_hash(h(0), h(1))
C18_Witness ==
  /\ pol.status = "ok"
  /\ AllRemembered
  /\ pol.leaves = 6
  /\ ProveSingle(pol, 3).hashes
       = <<LeafHash(3), NodeParentHash(LeafHash(1), LeafHash(2))>>

\* the pollard holds the 15 remembered leaves h(0)..h(14)
Scenario3 ==
  pol.status = "ok" /\ AllRemembered /\ pol.leaves = 15 /\ Len(polAdded) = 15

\* C19 (as claimed): with the 15 leaves h(0)..h(14), the proof of position 3
\* has the targets [3] and exactly the hashes h(2), parent_hash(h(0), h(1)).
C19_Scenario3 ==
  Scenario3 =>
    LET proof == ProofOf(pol, {3})
    IN /\ proof.ok
       /\ proof.targets = <<3>>
       /\ proof.hashes = <<polAdded[3].hash,
                           NodeParentHash(polAdded[1].hash, polAdded[2].hash)>>

\* C19 (amended): with the 15 leaves h(0)..h(14), the proof of position 3
\* has the targets [3] and exactly three hashes: h(2), parent_hash(h(0),
\* h(1)) and the hash over h(4)..h(7), position 3 being three rows below the
\* root of the tree of eight leaves.
C19_Scenario3Amended ==
  Scenario3 =>
    LET proof == ProofOf(pol, {3})
    IN /\ proof.ok
       /\ proof.targets = <<3>>
       /\ proof.hashes
            = <<polAdded[3].hash,
                NodeParentHash(polAdded[1].hash, polAdded[2].hash),
                NodeParentHash(
                  NodeParentHash(polAdded[5].hash, polAdded[6].hash),
                  NodeParentHash(polAdded[7].hash, polAdded[8].hash))>>

\* C19 witness: the 15 leaves are held and the proof of position 3 is given
C19_Witness ==
  /\ Scenario3
  /\ ProofOf(pol, {3}).ok
  /\ Len(ProofOf(pol, {3}).hashes) = 3
  /\ SlotView(pol, 3) # <<>>
  /\ SlotView(pol, 0) # <<>>

\* C21: in every sequence of modify and undo calls whose added leaves are not
\* Empty, parent_hash is never called with an Empty argument: an addition
\* that meets an Empty root skips it, and the hashes recomputed after a
\* deletion never read an Empty node.
C21_NoEmptyHashed == ~pol.hashed_empty

\* C21 witness: a modify call that returned has added a leaf over the Empty
\* root a deletion left
C21_Witness ==
  /\ pol.status = "ok"
  /\ polDeleted # {}
  /\ polUndo.roots_destroyed # <<>>
  /\ \A i \in 1..Len(polAdded) : ~IsEmpty(polAdded[i].hash)

\* C23 (as claimed): a modify call given a deletion position whose node is
\* not in the forest (pruned, never added, or under an absent root slot)
\* does not abort, and reports the failure to its caller as an error value.
C23_MissingPosition ==
  [][(\E i \in 1..Len(Targets(pol, SeqToSet(polLast'.dels))) :
        GrabPosition(pol, Targets(pol, SeqToSet(polLast'.dels))[i]).kind
          # "some")
     => (pol'.status = "ok" /\ polLast'.ret = "err")]_vars

\* C24 (as claimed): when a deletion of a modify call cannot be applied (the
\* node of one of its positions is not found), the root slots and leaves
\* after the call are those before it: no other deletion of the call and
\* no addition was applied.
C24_AllOrNothing ==
  [][LET tw == Targets(pol, polDeleted' \ polDeleted)
     IN (/\ pol'.status = "ok"
         /\ \E i \in 1..Len(tw) : GrabPosition(pol, tw[i]).kind # "some")
        => /\ pol'.leaves = pol.leaves
           /\ \A r \in Rows : SlotView(pol', r) = SlotView(pol, r)]_vars

\* C25 (as claimed): on a fresh pollard, adding h(0) and then deleting
\* position 0 leaves an Empty-hash node in root slot 0 with leaves = 1; the
\* attempt to delete position 0 before anything was added returns, and
\* adding h(0) after it leaves h(0) in root slot 0.
C25_Scenario6 ==
  /\ (/\ Len(polAdded) = 1
      /\ polDeleted = {0}
      /\ polLast.adds = <<>>
      /\ polLast.dels = <<0>>)
     => /\ pol.status = "ok"
        /\ SlotView(pol, 0) = <<Empty>>
        /\ pol.leaves = 1
  /\ (/\ polLast.called
      /\ polLast.dels = <<0>>
      /\ polAdded = polLast.adds)
     => pol.status = "ok"
  /\ (/\ Len(polAdded) = 1
      /\ polDeleted = {0}
      /\ polLast.adds = polAdded
      /\ polLast.dels = <<>>)
     => /\ pol.status = "ok"
        /\ SlotView(pol, 0) = <<polAdded[1].hash>>
        /\ pol.leaves = 1

\* the first row whose bit of `leaves` is 0, from row r on
RECURSIVE FirstFreeRowFrom(_, _)
FirstFreeRowFrom(leaves, r) ==
  IF Bit(leaves, r) = 0 THEN r ELSE FirstFreeRowFrom(leaves, r + 1)

\* the hash of the root of row r, Empty for a slot that holds none
RootHashAt(P, r) == IF P.roots[r] = 0 THEN Empty ELSE P.heap[P.roots[r]].hash

\* the hash carried to row f from row r, an Empty root giving the carry back
RECURSIVE CarryHash(_, _, _, _)
CarryHash(P, carry, r, f) ==
  IF r >= f THEN carry
  ELSE CarryHash(P, ParentHashCollapse(RootHashAt(P, r), carry), r + 1, f)

\* a call that adds one leaf and deletes nothing, made on a pollard that
\* has an Empty root in one of the rows the addition goes through
AddsOverEmptyRoot ==
  /\ pol.status = "ok"
  /\ Len(polAdded') = Len(polAdded) + 1
  /\ polDeleted' = polDeleted
  /\ \E r \in 0..(FirstFreeRowFrom(pol.leaves, 0) - 1) :
       pol.roots[r] # 0 /\ IsEmpty(pol.heap[pol.roots[r]].hash)

\* C29: when add_single meets an occupied row whose root hash is Empty, it
\* clears the slot without hashing and carries its node unchanged to the
\* next row, as if parent_hash(Empty, carry) were carry: the leaf counter
\* grows by exactly 1, the rows below the first row f whose bit of leaves
\* is 0 hold no root, the root of row f has the hash carried through the
\* rows below it, the roots above f keep their hashes and no hash is taken
\* of an Empty input.
C29_AddOverEmpty ==
  [][AddsOverEmptyRoot =>
       LET f == FirstFreeRowFrom(pol.leaves, 0)
           leaf == polAdded'[Len(polAdded')].hash
       IN /\ pol'.status = "ok"
          /\ pol'.leaves = pol.leaves + 1
          /\ \A r \in 0..(f - 1) : pol'.roots[r] = 0
          /\ pol'.roots[f] # 0
          /\ RootHashAt(pol', f) = CarryHash(pol, leaf, 0, f)
          /\ \A r \in (f + 1)..(RootSlots - 1) :
               RootHashAt(pol', r) = RootHashAt(pol, r)
          /\ pol'.hashed_empty = pol.hashed_empty]_vars

\* C29 witness: the second leaf was added over the Empty root the deletion
\* of the first one left in row 0, and is the root of row 1 as it is
C29_Witness ==
  /\ pol.status = "ok"
  /\ pol.leaves = 2
  /\ polDeleted = {0}
  /\ polUndo.roots_destroyed = <<0>>
  /\ pol.roots[0] = 0
  /\ RootHashAt(pol, 1) = polAdded[2].hash

\* the leaves under a node, read from its digest: <<k>> is leaf k, a pair
\* is the digest of a parent
RECURSIVE DigestLeaves(_)
DigestLeaves(v) ==
  IF Len(v) = 1 THEN {v[1]}
  ELSE DigestLeaves(v[1]) \cup DigestLeaves(v[2])

\* the cells of the pollard that hold a node made by merging two nodes
InternalNodes(P) ==
  {n \in 1..Len(P.heap) : ~P.heap[n].dead /\ Len(P.heap[n].hash.val) = 2}

\* C30: every root add_single makes by merging two nodes has the OR of
\* their remember flags, so after any additions the remember flag of every
\* internal node is the OR of the remember flags of the leaves added under
\* it.
C30_RememberIsOr ==
  pol.status = "ok" =>
    \A n \in InternalNodes(pol) :
      pol.heap[n].remember
        <=> \E k \in DigestLeaves(pol.heap[n].hash.val) : polAdded[k].remember

\* C30 witness: of four leaves the first and the last are remembered; the
\* root and the two nodes under it are kept and all three are remembered
C30_Witness ==
  /\ pol.status = "ok"
  /\ pol.leaves = 4
  /\ [i \in 1..4 |-> polAdded[i].remember] = <<TRUE, FALSE, FALSE, TRUE>>
  /\ pol.roots[2] # 0
  /\ pol.heap[pol.roots[2]].remember
  /\ Cardinality(InternalNodes(pol)) = 3

\* the rows whose root was made by add_single merging two nodes
MergedRootRows(P) ==
  {r \in Rows : P.roots[r] # 0 /\ Len(P.heap[P.roots[r]].hash.val) = 2}

\* C31: a root add_single made by a merge with remember = false has no
\* nieces and the two nodes it merged are not reachable from any root slot
\* (no cell of the pollard holds their hashes); with remember = true its
\* left niece is the old root and its right niece the node carried.
C31_PruneOnAdd ==
  pol.status = "ok" =>
    \A r \in MergedRootRows(pol) :
      LET root == pol.heap[pol.roots[r]]
          merged == {root.hash.val[1], root.hash.val[2]}
      IN IF root.remember
         THEN /\ root.left # 0
              /\ root.right # 0
              /\ pol.heap[root.left].hash.val = root.hash.val[1]
              /\ pol.heap[root.right].hash.val = root.hash.val[2]
         ELSE /\ root.left = 0
              /\ root.right = 0
              /\ \A x \in 1..Len(pol.heap) :
                   pol.heap[x].hash.val \notin merged

\* C31 witness: four remembered leaves and then two forgotten ones; the
\* root of row 2 keeps its nieces, the root of row 1 is pruned
C31_Witness ==
  /\ pol.status = "ok"
  /\ pol.leaves = 6
  /\ MergedRootRows(pol) = {1, 2}
  /\ pol.heap[pol.roots[2]].remember
  /\ pol.heap[pol.roots[2]].left # 0
  /\ ~pol.heap[pol.roots[1]].remember
  /\ pol.heap[pol.roots[1]].left = 0
  /\ Len(pol.heap) = 8

\* a node with exactly one niece
Partial(heap, n) == (heap[n].left = 0) # (heap[n].right = 0)

\* C32 (as claimed): at the return of every public operation of the pollard
\* every node has both nieces or none; no node has exactly one niece.
C32_NoPartial ==
  pol.status = "ok" =>
    \A n \in 1..Len(pol.heap) : ~Partial(pol.heap, n)

\* C32 witness: after deletions and an undo in a pollard that still counts
\* three leaves or more, the pollard holds nodes with both nieces and nodes
\* with none
C32_Witness ==
  /\ pol.status = "ok"
  /\ pol.leaves >= 3
  /\ polDeleted # {}
  /\ polUndos > 0
  /\ \E n \in 1..Len(pol.heap) : Cached(pol.heap, n)
  /\ \E n \in 1..Len(pol.heap) :
       pol.heap[n].left = 0 /\ pol.heap[n].right = 0

\* C33 (as claimed): for a node X with aunt A and grandparent G,
\* X.migrate_up() puts X into the niece slot of G that held A (left stays
\* left, right stays right) and leaves G's other niece the same node with
\* the same hash.
C33_MigrateUpSlot ==
  mu.called =>
    LET gp == mu.post[GrandparentId]
    IN /\ mu.status = "ok"
       /\ mu.a_left => (gp.left = SelfId /\ gp.right = ParentId)
       /\ ~mu.a_left => (gp.left = ParentId /\ gp.right = SelfId)
       /\ mu.post[ParentId].hash = mu.pre[ParentId].hash

\* an undo call on a pollard that took additions alone, with the UndoData
\* of its last modify call, which destroyed no root
UndoOfAdditions ==
  /\ pol.status = "ok"
  /\ polUndos' = polUndos + 1
  /\ polDeleted = {}
  /\ polUndo.roots_destroyed = <<>>
  /\ polUndo.num_adds <= pol.leaves

\* C34 (as claimed): for a pollard holding n leaves after additions alone,
\* undo with num_adds = k <= n and no destroyed roots returns, without
\* arithmetic underflow, with leaves = n - k.
C34_UndoLeaves ==
  [][UndoOfAdditions =>
       /\ pol'.status = "ok"
       /\ pol'.leaves = pol.leaves - polUndo.num_adds]_vars

\* the positions of the roots of the forest
RootPositions(P) ==
  {RootPosition(P.leaves, r, TreeRows(P.leaves)) :
     r \in {x \in 0..TreeRows(P.leaves) : Bit(P.leaves, x) = 1}}

\* C35 (as claimed): when the position given to prove is a root of the
\* forest, the hash list returned for it is empty.
C35_RootProofEmpty ==
  pol.status = "ok" =>
    \A pos \in RootPositions(pol) :
      LET proof == Prove(pol, <<pos>>)
      IN /\ Len(proof) = 1
         /\ proof[1].status = "ok"
         /\ proof[1].hashes = <<>>

\* C36 (as claimed): in a pollard built by additions with remember = true,
\* leaf hashes repeating or not, the sibling() of every node below a root
\* is the other niece of the node's aunt, a node distinct from the node
\* itself.
C36_SiblingIsOther ==
  pol.status = "ok" =>
    \A n \in 1..Len(pol.heap) :
      LET aunt == AuntOf(pol.heap, n)
          sibling == SiblingOf(pol.heap, n)
      IN aunt # 0 =>
           /\ sibling # 0
           /\ sibling # n
           /\ {n, sibling} = {pol.heap[aunt].left, pol.heap[aunt].right}

\* the number of aunts above n, counted as prove_single walks: up to the
\* first node whose aunt() is None; -1 when `fuel` steps do not get there
RECURSIVE AuntsAbove(_, _, _)
AuntsAbove(heap, n, fuel) ==
  LET aunt == AuntOf(heap, n)
  IN IF aunt = 0 THEN 0
     ELSE IF fuel = 0 THEN -1
     ELSE LET up == AuntsAbove(heap, aunt, fuel - 1)
          IN IF up < 0 THEN -1 ELSE up + 1

\* C39: in every state reachable by modify and undo, the aunt references
\* followed from any node reach a node without an aunt in fewer steps than
\* the pollard has nodes: they form no cycle, and the walks of prove_single
\* and recompute_hashes end.
C39_AuntWalkEnds ==
  pol.status = "ok" =>
    \A n \in 1..Len(pol.heap) :
      AuntsAbove(pol.heap, n, Len(pol.heap)) \in 0..(Len(pol.heap) - 1)

\* C39 witness: after a deletion, a node of the pollard has two aunts above it
C39_Witness ==
  /\ pol.status = "ok"
  /\ polDeleted # {}
  /\ \E n \in 1..Len(pol.heap) : AuntsAbove(pol.heap, n, Len(pol.heap)) = 2

(***************************************************************************)
(* Claims about NodeHash                                                   *)
(***************************************************************************)
\* C20 (as claimed): NodeHash::parent_hash(L, R) is Empty when L and R are
\* Empty, is the other argument when exactly one of them is Empty, and is
\* the hash of the two 32-byte values when neither is Empty.
C20_EmptyCollapse ==
  ph.called =>
    /\ (IsEmpty(ph.left) /\ IsEmpty(ph.right)) => ph.out = Empty
    /\ (IsEmpty(ph.left) /\ ~IsEmpty(ph.right)) => ph.out = ph.right
    /\ (~IsEmpty(ph.left) /\ IsEmpty(ph.right)) => ph.out = ph.left
    /\ (~IsEmpty(ph.left) /\ ~IsEmpty(ph.right))
         => ph.out = Value(<<Deref(ph.left), Deref(ph.right)>>)

\* C22 (as claimed): two Value hashes are equal iff their bytes are; Empty
\* equals Empty; Empty differs from every Value, the all-zero one included;
\* Placeholder equals nothing, not even Placeholder.
C22_Equality ==
  eqc.called =>
    /\ (eqc.left.ty = "Some" /\ eqc.right.ty = "Some")
         => (eqc.out <=> eqc.left.val = eqc.right.val)
    /\ (eqc.left = Empty /\ eqc.right = Empty) => eqc.out
    /\ (eqc.left = Empty /\ eqc.right.ty = "Some") => ~eqc.out
    /\ (eqc.left.ty = "Some" /\ eqc.right = Empty) => ~eqc.out
    /\ (eqc.left = Placeholder \/ eqc.right = Placeholder) => ~eqc.out

\* C22 (amended): as claimed for Value and Empty; Placeholder equals
\* Placeholder and differs from every Value and from Empty.
C22_EqualityAmended ==
  eqc.called =>
    /\ (eqc.left.ty = "Some" /\ eqc.right.ty = "Some")
         => (eqc.out <=> eqc.left.val = eqc.right.val)
    /\ (eqc.left = Empty /\ eqc.right = Empty) => eqc.out
    /\ (eqc.left = Empty /\ eqc.right.ty = "Some") => ~eqc.out
    /\ (eqc.left.ty = "Some" /\ eqc.right = Empty) => ~eqc.out
    /\ (eqc.left = Placeholder \/ eqc.right = Placeholder)
         => (eqc.out <=> (eqc.left = Placeholder /\ eqc.right = Placeholder))

\* C22 witness: Empty was compared with the all-zero Value and found
\* different
C22_Witness ==
  /\ eqc.called
  /\ eqc.left = Empty
  /\ eqc.right = Value(ZeroBytes)
  /\ ~eqc.out

\* C38 (as claimed): for every PoseidonHash h of the example (Hash(x) for
\* any field element x, zero included, Placeholder, Empty), reading back
\* the 32 bytes that write(h) produces gives a value equal to h.
C38_RoundTrip == rt.called => rt.back = rt.h

(***************************************************************************)
(* Claims about the bindings                                               *)
(***************************************************************************)
\* the stump a caller of the last binding call holds after it
BoundStump ==
  IF bind.api = "c" THEN [leafs |-> cstump.leafs, roots |-> cstump.roots]
  ELSE IF bind.api = "wasm" THEN wstump
  ELSE ustump

\* C26 (as claimed): after a modify call of a binding (uniffi, as C and
\* wasm) that returned Ok for a list of additions that is not empty, the
\* stump held through the binding has that many leaves more than before.
C26_AcceptedUpdates ==
  (bind.api # "none" /\ bind.ok /\ bind.n_utxos > 0)
    => BoundStump.leafs = bind.pre.leafs + bind.n_utxos

\* the stump of the C caller is the one the last call started from
CStumpAsBefore ==
  [leafs |-> cstump.leafs, roots |-> cstump.roots] = ccall.pre

\* C27 (as claimed): rustreexo_stump_modify returns EXIT_FAILURE (0) and
\* writes NullPointer to *errno when stump is null or an array is null with
\* a count that is not 0; a null array with count 0 is accepted (the call
\* goes on as with an empty array); when errno is null it returns
\* EXIT_FAILURE and writes nothing; the stump is not modified when it fails
\* so.
C27_NullPointers ==
  ccall.fn = "modify" =>
    LET null == ccall.null
        bad == \/ null.stump
               \/ null.utxos /\ ccall.n_utxos > 0
               \/ null.dels /\ ccall.n_dels > 0
    IN /\ null.errno
            => /\ ~ccall.aborted
               /\ ccall.ret = 0
               /\ cerrno = ccall.pre_errno
               /\ CStumpAsBefore
       /\ (~null.errno /\ bad)
            => /\ ~ccall.aborted
               /\ ccall.ret = 0
               /\ cerrno = "NullPointer"
               /\ CStumpAsBefore
       /\ (~null.errno /\ ~bad /\ ~null.proof /\ (null.utxos \/ null.dels))
            => /\ ~ccall.aborted
               /\ cerrno = ccall.pre_errno
               /\ ccall.outcome \in {"ok", "err"}

\* C28 (as claimed): with errno, proof and stump not null,
\* rustreexo_proof_verify returns EXIT_SUCCESS (1) exactly when the proof
\* verifies, and then leaves *errno as it was; for Ok(false) it returns
\* EXIT_FAILURE with *errno = InvalidProof, for Err EXIT_FAILURE with
\* *errno = UtreexoError; the stump is never modified.
C28_VerifyOutcome ==
  (/\ ccall.fn = "verify"
   /\ ~ccall.null.errno
   /\ ~ccall.null.proof
   /\ ~ccall.null.stump)
    => /\ ccall.ret = 1 <=> ccall.outcome = "true"
       /\ ccall.outcome = "true" => cerrno = ccall.pre_errno
       /\ ccall.outcome = "false" => (ccall.ret = 0 /\ cerrno = "InvalidProof")
       /\ ccall.outcome = "err" => (ccall.ret = 0 /\ cerrno = "UtreexoError")
       /\ CStumpAsBefore

\* C37 (as claimed): whenever rustreexo_stump_modify, rustreexo_proof_parse,
\* rustreexo_proof_serialize or rustreexo_proof_verify is called with errno
\* not null and returns EXIT_FAILURE (0), the call has written an error kind
\* other than None to *errno, which then holds that kind.
C37_FailureSetsErrno ==
  (/\ ccall.fn # "none"
   /\ ~ccall.aborted
   /\ ~ccall.null.errno
   /\ ccall.ret = 0)
    => cerrno # "None"

\* C8 (as claimed): when the core modify returns an error, the stump the
\* caller sees after the call is the stump it saw before, through the C
\* binding and through the wasm binding.
C8_RejectedUnchanged ==
  /\ (bind.api = "c" /\ ~bind.ok)
       => [leafs |-> cstump.leafs, roots |-> cstump.roots] = bind.pre
  /\ (bind.api = "wasm" /\ ~bind.ok) => wstump = bind.pre

=============================================================================
